---- MODULE Spec2Model ----
(***************************************************************************)
(* Rate-limited retrieval engine of the CMS eligibility extractor:         *)
(*   RateLimiter (token bucket), ExponentialBackoff (retry policy),        *)
(*   with_rate_limit_and_retry (retry wrapper) and                         *)
(*   CMSEligibilityClient.get_eligibility (fetch and classification),      *)
(* and of MultiYearOrchestrator, which runs process_year for every year,   *)
(* one after the other or in a thread pool.                                *)
(*                                                                         *)
(* Time is counted in seconds.  The code keeps absolute timestamps         *)
(* (last_refill, start_time) and only ever uses their distance to "now";   *)
(* the model keeps those distances (since_refill, elapsed, sleep_left),     *)
(* each up to the value from which the code's result no longer changes:    *)
(* since_refill up to the refill that fills the bucket, elapsed up to the  *)
(* timeout and, start_time being local to acquire, 0 outside acquire.      *)
(* requests_per_second is kept as its reciprocal sec_per_token, and the    *)
(* float token count is kept exactly, in units of 1/sec_per_token token:   *)
(* one second refills one unit, one whole token is sec_per_token units.    *)
(***************************************************************************)
EXTENDS Integers, Sequences, FiniteSets, TLC

VARIABLES
    config,                 \* RateLimitConfig shared by limiter and backoff
    tokens,                 \* RateLimiter.tokens (units of 1/sec_per_token)
    since_refill,           \* now - RateLimiter.last_refill
    lock,                   \* holders of RateLimiter.lock (at most one)
    total_requests,         \* RateLimiter.total_requests
    rate_limited_requests,  \* RateLimiter.rate_limited_requests
    total_wait_time,        \* RateLimiter.total_wait_time
    pc,                     \* position of each thread
    timeout,                \* acquire's timeout argument: <<>> is None
    elapsed,                \* now - start_time of the running acquire
    sleep_left,             \* remaining time of the running time.sleep
    ncalls,                 \* calls started by each thread
    granted,                \* tokens the thread's current call was granted
    attempt,                \* wrapper's attempt
    last_exception,         \* wrapper's last_exception
    responses,              \* what func did on each invocation of this call
    sleeps,                 \* backoff sleeps of this call: <<attempt, delay>>
    wret,                   \* how the wrapper ended: returned or raised
    outcome,                \* get_eligibility's return: <<metadata, data returned>>
    stats,                  \* CMSEligibilityClient.stats
    fn,                     \* last evaluation of a BackoffPolicy function
    arg_npi                 \* npi argument of the thread's get_eligibility call

\* MultiYearOrchestrator and the run of process_all_years
VARIABLES
    npis,                   \* MultiYearOrchestrator.npis, as loaded
    years,                  \* MultiYearOrchestrator.years
    parallel,               \* process_all_years' parallel argument
    progress_callback,      \* TRUE: the caller passed a progress_callback
    checkpoint_interval,    \* process_all_years' checkpoint_interval
    main,                   \* position of process_all_years
    wstate,                 \* position of process_year(year), per year
    idx,                    \* process_year's i: identifiers gone through
    year_results,           \* keys of process_year's year_results
    failed_count,           \* process_year's failed_count
    successful_count,       \* process_year's successful_count
    fetched,                \* identifiers get_eligibility was called with
    delivered,              \* 'current' values each progress sink received
    checkpoint,             \* npis_processed in checkpoint_<year>.json, 0: no file
    all_results,            \* years whose result process_all_years holds
    resumed,                \* TRUE: the process was restarted
    checkpoint_read,        \* what resume_from_checkpoint(year) returned
    succeeded,              \* keys of year_results whose metadata.success is True
    checkpoint_counts,      \* <<successful_npis, failed_npis>> of the run's last checkpoint
    summary_saved           \* TRUE: the run's _save_processing_summary has written

\* threads that share one CMSEligibilityClient, and NPIReader
VARIABLES
    stats_loaded,           \* per thread: the value it read for stats[k] += 1
    stats_read,             \* per thread: the dict its get_stats call builds
    observed,               \* history: the ages of the grants and of the calls of func
    csv_rows,               \* the npi field of each row of the CSV file
    reader,                 \* NPIReader: stats, invalid_npis, duplicate_npis
    read                    \* the calls of read_npis so far, with what each returned

engine_vars == <<config, tokens, since_refill, lock, total_requests,
                 rate_limited_requests, total_wait_time, pc, timeout, elapsed,
                 sleep_left, ncalls, granted, attempt, last_exception,
                 responses, sleeps, wret, outcome, stats, fn, arg_npi>>

orch_vars == <<npis, years, parallel, progress_callback, checkpoint_interval,
               main, wstate, idx, year_results, failed_count, successful_count, fetched,
               delivered, checkpoint, all_results, resumed, checkpoint_read,
               succeeded, checkpoint_counts, summary_saved>>

counter_vars == <<stats_loaded, stats_read, observed>>
reader_vars == <<csv_rows, reader, read>>

vars == <<engine_vars, orch_vars, counter_vars, reader_vars>>

limiter_vars == <<tokens, since_refill, lock, total_requests,
                  rate_limited_requests, total_wait_time>>
wrapper_vars == <<attempt, last_exception, responses, sleeps, wret>>
client_vars  == <<outcome, stats>>

----------------------------------------------------------------------------
(* Bounds of the model *)

NThreads == 2          \* concurrent callers of one limiter
MaxAcquires == 1       \* direct acquire calls each thread starts
MaxFetches == 1        \* get_eligibility calls the fetching thread starts
MaxBurst == 2          \* largest burst_requests
MaxRetriesBound == 2   \* largest max_retries
TickSeconds == 20      \* granularity of the clock

(* Program constants *)

AcquireTimeout == 30   \* rate_limiter.acquire(timeout=30.0)

Threads == 1..NThreads
\* one thread fetches through the client; the others are other users of the
\* same limiter, seen only through their acquire calls
Fetchers == {1}
Others == Threads \ Fetchers
None == "None"

Min(a, b) == IF a <= b THEN a ELSE b
Max(a, b) == IF a >= b THEN a ELSE b

----------------------------------------------------------------------------
(* RateLimitConfig *)

RateLimitConfig(spts, bursts, delays, maxdelays, factors, retries, jitters) ==
    [sec_per_token   : spts,
     burst_requests  : bursts,
     retry_delay     : delays,
     max_retry_delay : maxdelays,
     backoff_factor  : factors,
     max_retries     : retries,
     jitter          : jitters]

\* requests_per_second 1/30 and 1/40: the wait for one token is within,
\* respectively beyond, the wrapper's acquire timeout.
SecPerTokenChoices == {30, 40}

LimiterConfigs ==
    RateLimitConfig(SecPerTokenChoices, 1..MaxBurst, {10}, {40}, {2},
                    {MaxRetriesBound}, {TRUE})

OneToken == config.sec_per_token
Capacity == config.burst_requests * config.sec_per_token

\* The counters of the limiter only ever grow and nothing reads them but
\* get_stats.  They are kept up to CounterCap steps, more than the calls of
\* any specification whose threads make a bounded number of calls; threads
\* that call without end leave them at the cap.
CounterCap == NThreads * MaxFetches * (MaxRetriesBound + 1)

\* n += d
Counted(n, d) == Min(n + d, CounterCap * d)

----------------------------------------------------------------------------
(* RateLimiter *)

\* History of the limiter's grants and of the calls of func, for the
\* specifications that observe them (on): the time since each, oldest first.
\* An event older than the time in which the bucket yields every token the
\* threads of the model can ask for is forgotten.
Horizon ==
    NThreads * MaxFetches * (config.max_retries + 1) * config.sec_per_token

InitObserved(on) == observed = [on |-> on, grants |-> <<>>, calls |-> <<>>]

\* acquire returns True now
Grant(o) == IF o.on THEN [o EXCEPT !.grants = Append(@, 0)] ELSE o

\* func is invoked now
Call(o) == IF o.on THEN [o EXCEPT !.calls = Append(@, 0)] ELSE o

RECURSIVE AgedBy(_, _)
AgedBy(ages, d) ==
    IF ages = <<>> THEN <<>>
    ELSE IF Head(ages) + d >= Horizon THEN AgedBy(Tail(ages), d)
         ELSE <<Head(ages) + d>> \o AgedBy(Tail(ages), d)

\* the clock advances by one tick
Aged(o) == [o EXCEPT !.grants = AgedBy(@, TickSeconds),
                     !.calls = AgedBy(@, TickSeconds)]

_refill_tokens_uncapped(tok, time_passed) == tok + time_passed

\* tokens after _refill_tokens; last_refill = now is since_refill' = 0
_refill_tokens(tok, time_passed) == Min(Capacity, tok + time_passed)

AcquirePcs == {"acq_enter", "acq_locked", "acq_check", "acq_sleep"}

\* start_time = time.time(); first iteration of while True
EnterAcquire(t, to) ==
    /\ pc' = [pc EXCEPT ![t] = "acq_enter"]
    /\ timeout' = [timeout EXCEPT ![t] = to]
    /\ elapsed' = [elapsed EXCEPT ![t] = 0]

\* a direct caller of RateLimiter.acquire
StartAcquire(t, to, max_calls) ==
    /\ pc[t] = "idle"
    /\ ncalls[t] < max_calls
    /\ ncalls' = [ncalls EXCEPT ![t] = Counted(@, 1)]
    /\ granted' = [granted EXCEPT ![t] = 0]
    /\ EnterAcquire(t, to)
    /\ UNCHANGED <<orch_vars, counter_vars, reader_vars, arg_npi, config, limiter_vars, sleep_left, wrapper_vars,
                   client_vars, fn>>

\* with self.lock: (entry)
AcquireLock(t) ==
    /\ pc[t] = "acq_enter"
    /\ lock = {}
    /\ lock' = {t}
    /\ pc' = [pc EXCEPT ![t] = "acq_locked"]
    /\ UNCHANGED <<orch_vars, counter_vars, reader_vars, arg_npi, config, tokens, since_refill, total_requests,
                   rate_limited_requests, total_wait_time, timeout, elapsed,
                   sleep_left, ncalls, granted, wrapper_vars, client_vars, fn>>

AcquireLockedKeepsLockOnMiss(t) ==
    /\ pc[t] = "acq_locked"
    /\ lock = {t}
    /\ LET refilled == _refill_tokens(tokens, since_refill) IN
         IF refilled >= OneToken
         THEN /\ tokens' = refilled - OneToken
              /\ total_requests' = Counted(total_requests, 1)
              /\ granted' = [granted EXCEPT ![t] = @ + 1]
              /\ pc' = [pc EXCEPT ![t] = "acq_true"]
              /\ elapsed' = [elapsed EXCEPT ![t] = 0]
              /\ observed' = Grant(observed)
              /\ lock' = {}
         ELSE /\ tokens' = refilled
              /\ total_requests' = total_requests
              /\ granted' = granted
              /\ pc' = [pc EXCEPT ![t] = "acq_check"]
              /\ elapsed' = elapsed
              /\ observed' = observed
              /\ lock' = lock
    /\ since_refill' = 0
    /\ UNCHANGED <<orch_vars, stats_loaded, stats_read, reader_vars, arg_npi, config, rate_limited_requests, total_wait_time, timeout,
                   sleep_left, ncalls, wrapper_vars, client_vars, fn>>

\* body of the with block, and the release of the lock on leaving it
AcquireLocked(t) ==
    /\ pc[t] = "acq_locked"
    /\ lock = {t}
    /\ LET refilled == _refill_tokens(tokens, since_refill) IN
         IF refilled >= OneToken
         THEN /\ tokens' = refilled - OneToken
              /\ total_requests' = Counted(total_requests, 1)
              /\ granted' = [granted EXCEPT ![t] = @ + 1]
              /\ pc' = [pc EXCEPT ![t] = "acq_true"]
              /\ elapsed' = [elapsed EXCEPT ![t] = 0]
              /\ observed' = Grant(observed)
         ELSE /\ tokens' = refilled
              /\ total_requests' = total_requests
              /\ granted' = granted
              /\ pc' = [pc EXCEPT ![t] = "acq_check"]
              /\ elapsed' = elapsed
              /\ observed' = observed
    /\ since_refill' = 0
    /\ lock' = {}
    /\ UNCHANGED <<orch_vars, stats_loaded, stats_read, reader_vars, arg_npi, config, rate_limited_requests, total_wait_time, timeout,
                   sleep_left, ncalls, wrapper_vars, client_vars, fn>>

TimedOutAtTheDeadline(t) ==
    /\ timeout[t] /= <<>>
    /\ elapsed[t] + OneToken >= Head(timeout[t])

\* if timeout is not None: elapsed + time_until_token > timeout
TimedOut(t) ==
    /\ timeout[t] /= <<>>
    /\ elapsed[t] + OneToken > Head(timeout[t])

\* the timeout check, then total_wait_time += ...; time.sleep(...)
AcquireCheck(t) ==
    /\ pc[t] = "acq_check"
    /\ IF TimedOut(t)
       THEN /\ pc' = [pc EXCEPT ![t] = "acq_false"]
            /\ elapsed' = [elapsed EXCEPT ![t] = 0]
            /\ UNCHANGED <<total_wait_time, sleep_left>>
       ELSE /\ pc' = [pc EXCEPT ![t] = "acq_sleep"]
            /\ total_wait_time' = Counted(total_wait_time, OneToken)
            /\ sleep_left' = [sleep_left EXCEPT ![t] = OneToken]
            /\ elapsed' = elapsed
    /\ UNCHANGED <<orch_vars, counter_vars, reader_vars, arg_npi, config, tokens, since_refill, lock, total_requests,
                   rate_limited_requests, timeout, ncalls, granted,
                   wrapper_vars, client_vars, fn>>

\* time.sleep returned: next iteration of while True
AcquireWake(t) ==
    /\ pc[t] = "acq_sleep"
    /\ sleep_left[t] = 0
    /\ pc' = [pc EXCEPT ![t] = "acq_enter"]
    /\ UNCHANGED <<orch_vars, counter_vars, reader_vars, arg_npi, config, limiter_vars, timeout, elapsed, sleep_left,
                   ncalls, granted, wrapper_vars, client_vars, fn>>

\* the direct caller takes acquire's result
AcquireReturn(t) ==
    /\ pc[t] \in {"acq_true", "acq_false"}
    /\ pc' = [pc EXCEPT ![t] = "idle"]
    /\ timeout' = [timeout EXCEPT ![t] = <<>>]
    /\ UNCHANGED <<orch_vars, counter_vars, reader_vars, arg_npi, config, limiter_vars, elapsed, sleep_left,
                   ncalls, granted, wrapper_vars, client_vars, fn>>

\* the clock advances: time.time() is larger at every later reading
Tick ==
    /\ since_refill' = Min(since_refill + TickSeconds, Capacity)
    /\ elapsed' = [t \in Threads |->
          IF pc[t] \in AcquirePcs /\ timeout[t] /= <<>>
          THEN Min(elapsed[t] + TickSeconds, Head(timeout[t]))
          ELSE elapsed[t]]
    /\ sleep_left' = [t \in Threads |-> Max(0, sleep_left[t] - TickSeconds)]
    /\ observed' = Aged(observed)
    /\ UNCHANGED <<orch_vars, stats_loaded, stats_read, reader_vars, arg_npi, config, tokens, lock, total_requests,
                   rate_limited_requests, total_wait_time, pc, timeout,
                   ncalls, granted, wrapper_vars, client_vars, fn>>

----------------------------------------------------------------------------
(* ExponentialBackoff *)

\* the classes of the exceptions of the model, each with its base classes
ExceptionBases(e) ==
    CASE e = "ConnectionError"  -> {"ConnectionError", "OSError", "Exception"}
      [] e = "TimeoutError"     -> {"TimeoutError", "OSError", "Exception"}
      [] e = "OSError"          -> {"OSError", "Exception"}
      [] e = "RequestException" -> {"RequestException", "OSError", "Exception"}
      [] e = "ValueError"       -> {"ValueError", "Exception"}
      [] e = "RuntimeError"     -> {"RuntimeError", "Exception"}

IsInstance(e, classes) == ExceptionBases(e) \cap classes /= {}

should_retry_no_server_errors(att, status_code, exception) ==
    /\ att < config.max_retries
    /\ \/ status_code = <<429>>
       \/ exception /= None
            /\ IsInstance(exception, {"ConnectionError", "TimeoutError", "OSError"})

should_retry_one_short(att, status_code, exception) ==
    /\ att + 1 < config.max_retries
    /\ \/ status_code = <<429>>
       \/ status_code /= <<>> /\ Head(status_code) /= 0
            /\ 500 <= Head(status_code) /\ Head(status_code) < 600
       \/ exception /= None
            /\ IsInstance(exception, {"ConnectionError", "TimeoutError", "OSError"})

should_retry_any_attempt(att, status_code, exception) ==
    \/ status_code = <<429>>
    \/ status_code /= <<>> /\ Head(status_code) /= 0
         /\ 500 <= Head(status_code) /\ Head(status_code) < 600
    \/ exception /= None
         /\ IsInstance(exception, {"ConnectionError", "TimeoutError", "OSError"})

\* status_code is <<>> for None; exception is None or a class name
should_retry(att, status_code, exception) ==
    IF att >= config.max_retries THEN FALSE
    ELSE IF status_code = <<429>> THEN TRUE
    ELSE IF /\ status_code /= <<>> /\ Head(status_code) /= 0
            /\ 500 <= Head(status_code) /\ Head(status_code) < 600 THEN TRUE
    ELSE IF /\ exception /= None
            /\ IsInstance(exception, {"ConnectionError", "TimeoutError", "OSError"})
         THEN TRUE
    ELSE FALSE

\* random.uniform(-jitter_range, jitter_range) as a fraction of jitter_range:
\* both ends and the middle
JitterDraws == {-1, 0, 1}
\* both ends only
JitterEnds == {-1, 1}

calculate_delay_uncapped(att, u) ==
    LET delay == config.retry_delay * (config.backoff_factor ^ att)
        jitter_range == delay \div 10
        jittered == IF config.jitter THEN delay + u * jitter_range ELSE delay
    IN  Max(0, jittered)

\* base_delay is never passed: it is config.retry_delay.  Delays are multiples
\* of 10 s, so that delay * 0.1 is exact.
calculate_delay(att, u) ==
    LET raw == config.retry_delay * (config.backoff_factor ^ att)
        delay == Min(raw, config.max_retry_delay)
        jitter_range == delay \div 10
        jittered == IF config.jitter THEN delay + u * jitter_range ELSE delay
    IN  Max(0, jittered)

\* one evaluation of should_retry or calculate_delay, with its arguments
Evaluation(op, att, status_code, exception, u, retry, delay) ==
    [op |-> op, attempt |-> att, status_code |-> status_code,
     exception |-> exception, u |-> u, retry |-> retry, delay |-> delay]

NoEvaluation == Evaluation("none", 0, <<>>, None, 0, FALSE, 0)

EvalShouldRetry(att, status_code, exception) ==
    /\ fn = NoEvaluation
    /\ fn' = Evaluation("should_retry", att, status_code, exception, 0,
                        should_retry(att, status_code, exception), 0)
    /\ UNCHANGED <<orch_vars, counter_vars, reader_vars, arg_npi, config, limiter_vars, pc, timeout, elapsed, sleep_left,
                   ncalls, granted, wrapper_vars, client_vars>>

EvalCalculateDelay(att, u) ==
    /\ fn = NoEvaluation
    /\ fn' = Evaluation("calculate_delay", att, <<>>, None, u, FALSE,
                        calculate_delay(att, u))
    /\ UNCHANGED <<orch_vars, counter_vars, reader_vars, arg_npi, config, limiter_vars, pc, timeout, elapsed, sleep_left,
                   ncalls, granted, wrapper_vars, client_vars>>

----------------------------------------------------------------------------
(* CMSEligibilityClient *)

Response(status, body_ok) ==
    [kind |-> "response", status_code |-> status, body_ok |-> body_ok]
Raised(e) == [kind |-> "raise", exception |-> e]

\* what session.get can do: a response with a status, whose body parses and
\* validates or not, or an exception (of requests, or any other)
FuncBehaviours ==
    {Response(200, TRUE), Response(200, FALSE), Response(302, FALSE),
     Response(400, FALSE), Response(404, FALSE), Response(429, FALSE),
     Response(500, FALSE), Raised("RequestException"), Raised("ValueError")}

\* _make_request_impl's update of the statistics
StatsAfterRequest(st, r) ==
    IF r.kind = "response"
    THEN [st EXCEPT !.total_requests = @ + 1]
    ELSE IF IsInstance(r.exception, {"RequestException"})
         THEN [st EXCEPT !.connection_errors = @ + 1]
         ELSE st

Metadata(success, status_code, error_message) ==
    [success |-> success, status_code |-> status_code,
     error_message |-> error_message, retry_count |-> 0]

ClassifyIgnoringBody(w) ==
    IF w.kind = "raise" THEN Metadata(FALSE, <<>>, w.exception)
    ELSE IF w.status_code = 200 THEN Metadata(TRUE, <<200>>, None)
    ELSE IF w.status_code = 404 THEN Metadata(FALSE, <<404>>, "NPI not found")
    ELSE IF w.status_code = 400 THEN Metadata(FALSE, <<400>>, "Bad request")
    ELSE IF w.status_code = 429 THEN Metadata(FALSE, <<429>>, "Rate limited")
    ELSE IF 500 <= w.status_code /\ w.status_code < 600
         THEN Metadata(FALSE, <<w.status_code>>, "Server error")
    ELSE Metadata(FALSE, <<w.status_code>>, "Unexpected status code")

\* get_eligibility's classification of what _make_request returned or raised
Classify(w) ==
    IF w.kind = "raise" THEN Metadata(FALSE, <<>>, w.exception)
    ELSE IF w.status_code = 200 THEN
            IF w.body_ok THEN Metadata(TRUE, <<200>>, None)
            ELSE Metadata(FALSE, <<200>>, "Failed to parse response")
    ELSE IF w.status_code = 404 THEN Metadata(FALSE, <<404>>, "NPI not found")
    ELSE IF w.status_code = 400 THEN Metadata(FALSE, <<400>>, "Bad request")
    ELSE IF w.status_code = 429 THEN Metadata(FALSE, <<429>>, "Rate limited")
    ELSE IF 500 <= w.status_code /\ w.status_code < 600
         THEN Metadata(FALSE, <<w.status_code>>, "Server error")
    ELSE Metadata(FALSE, <<w.status_code>>, "Unexpected status code")

\* the first value get_eligibility returns: TRUE for eligibility_data (only
\* after a 200 whose body parsed and validated), FALSE for None
EligibilityData(w) ==
    w.kind = "response" /\ w.status_code = 200 /\ w.body_ok

\* the counter get_eligibility increments for that classification
StatsAfterClassify(st, w) ==
    IF w.kind = "raise" THEN [st EXCEPT !.failed_requests = @ + 1]
    ELSE IF w.status_code = 200 THEN
            IF w.body_ok THEN [st EXCEPT !.successful_requests = @ + 1]
            ELSE [st EXCEPT !.failed_requests = @ + 1]
    ELSE IF w.status_code = 404 THEN [st EXCEPT !.not_found_requests = @ + 1]
    ELSE IF w.status_code = 400 THEN [st EXCEPT !.bad_request_errors = @ + 1]
    ELSE IF w.status_code = 429 THEN [st EXCEPT !.rate_limit_errors = @ + 1]
    ELSE IF 500 <= w.status_code /\ w.status_code < 600
         THEN [st EXCEPT !.server_errors = @ + 1]
    ELSE [st EXCEPT !.failed_requests = @ + 1]

\* an identifier, by its length and whether all its characters are digits
NpiInputs ==
    {[len |-> 10, digits |-> TRUE], [len |-> 5, digits |-> TRUE],
     [len |-> 10, digits |-> FALSE], [len |-> 0, digits |-> FALSE]}

ValidNpiAnyLength(npi) == npi.digits

\* npi.isdigit() and len(npi) == 10
ValidNpi(npi) == npi.digits /\ npi.len = 10

\* the wrapper returned or raised w, and get_eligibility returns its metadata
Finish(t, w, st) ==
    /\ wret' = [wret EXCEPT ![t] = <<w>>]
    /\ outcome' = [outcome EXCEPT ![t] = <<Classify(w), EligibilityData(w)>>]
    /\ stats' = StatsAfterClassify(st, w)
    /\ pc' = [pc EXCEPT ![t] = "done"]

LoopTopAcquiresOnce(t, att, last_exc, st) ==
    IF att <= config.max_retries
    THEN /\ pc' = [pc EXCEPT ![t] = "acq_true"]
         /\ timeout' = [timeout EXCEPT ![t] = <<AcquireTimeout>>]
         /\ elapsed' = [elapsed EXCEPT ![t] = 0]
         /\ stats' = st
         /\ UNCHANGED <<wret, outcome>>
    ELSE /\ Finish(t, Raised(IF last_exc /= None THEN last_exc
                                                 ELSE "RuntimeError"), st)
         /\ UNCHANGED <<timeout, elapsed>>

\* while attempt <= backoff.config.max_retries: acquire a token; after the
\* loop: raise last_exception, or RuntimeError("Max retries exceeded")
LoopTop(t, att, last_exc, st) ==
    IF att <= config.max_retries
    THEN /\ EnterAcquire(t, <<AcquireTimeout>>)
         /\ stats' = st
         /\ UNCHANGED <<wret, outcome>>
    ELSE /\ Finish(t, Raised(IF last_exc /= None THEN last_exc
                                                 ELSE "RuntimeError"), st)
         /\ UNCHANGED <<timeout, elapsed>>

\* get_eligibility(npi): the format check, then _make_request (the wrapper)
GetEligibility(t, npi) ==
    /\ pc[t] \in {"idle", "done"}
    /\ ncalls[t] < MaxFetches
    /\ ncalls' = [ncalls EXCEPT ![t] = @ + 1]
    /\ granted' = [granted EXCEPT ![t] = 0]
    /\ responses' = [responses EXCEPT ![t] = <<>>]
    /\ sleeps' = [sleeps EXCEPT ![t] = <<>>]
    /\ attempt' = [attempt EXCEPT ![t] = 0]
    /\ last_exception' = [last_exception EXCEPT ![t] = None]
    /\ IF ~ValidNpi(npi)
       THEN /\ outcome' = [outcome EXCEPT ![t] =
                   <<Metadata(FALSE, <<>>, "Invalid NPI format (must be 10 digits)"),
                     FALSE>>]
            /\ wret' = [wret EXCEPT ![t] = <<>>]
            /\ pc' = [pc EXCEPT ![t] = "done"]
            /\ UNCHANGED <<timeout, elapsed, stats>>
       ELSE /\ wret' = [wret EXCEPT ![t] = <<>>]
            /\ outcome' = [outcome EXCEPT ![t] = <<>>]
            /\ EnterAcquire(t, <<AcquireTimeout>>)
            /\ UNCHANGED stats
    /\ arg_npi' = [arg_npi EXCEPT ![t] = <<npi>>]
    /\ UNCHANGED <<orch_vars, counter_vars, reader_vars, config, limiter_vars, sleep_left, fn>>

WrapperTimeoutInsideTry(t) ==
    /\ pc[t] = "acq_false"
    /\ last_exception' = [last_exception EXCEPT ![t] = "TimeoutError"]
    /\ IF should_retry(attempt[t], <<>>, "TimeoutError")
       THEN /\ sleeps' = [sleeps EXCEPT ![t] =
                   Append(@, <<attempt[t], calculate_delay(attempt[t], 0)>>)]
            /\ sleep_left' = [sleep_left EXCEPT ![t] =
                   calculate_delay(attempt[t], 0)]
            /\ pc' = [pc EXCEPT ![t] = "backoff"]
            /\ UNCHANGED <<wret, outcome, stats>>
       ELSE /\ Finish(t, Raised("TimeoutError"), stats)
            /\ UNCHANGED <<sleeps, sleep_left>>
    /\ UNCHANGED <<orch_vars, counter_vars, reader_vars, arg_npi, config, limiter_vars, timeout, elapsed, ncalls, granted,
                   attempt, responses, fn>>

\* acquire returned False: raise TimeoutError, outside the wrapper's try
WrapperTimeout(t) ==
    /\ pc[t] = "acq_false"
    /\ Finish(t, Raised("TimeoutError"), stats)
    /\ UNCHANGED <<orch_vars, counter_vars, reader_vars, arg_npi, config, limiter_vars, timeout, elapsed, sleep_left, ncalls,
                   granted, attempt, last_exception, responses, sleeps, fn>>

\* time.sleep(delay); attempt += 1; continue
Backoff(t, u) ==
    LET delay == calculate_delay(attempt[t], u) IN
    /\ sleeps' = [sleeps EXCEPT ![t] = Append(@, <<attempt[t], delay>>)]
    /\ sleep_left' = [sleep_left EXCEPT ![t] = delay]
    /\ pc' = [pc EXCEPT ![t] = "backoff"]
    /\ UNCHANGED <<wret, outcome>>

RetryStatusEvery429(att, status_code) == status_code = 429

RetryStatusAnyError(att, status_code) ==
    status_code >= 400 /\ att < config.max_retries

RetryStatusNever(att, status_code) == FALSE

\* if status_code == 429: ... if backoff.should_retry(attempt, status_code)
RetryStatus(att, status_code) ==
    status_code = 429 /\ should_retry(att, <<status_code>>, None)

\* acquire returned True and func(*args) does r; the wrapper handles it
FuncResponds(t, r, u) ==
    /\ pc[t] = "acq_true"
    /\ responses' = [responses EXCEPT ![t] = Append(@, r)]
    /\ observed' = Call(observed)
    /\ LET st == StatsAfterRequest(stats, r) IN
       IF r.kind = "response"
       THEN /\ UNCHANGED last_exception
            /\ rate_limited_requests' =
                  IF r.status_code = 429 THEN rate_limited_requests + 1
                                         ELSE rate_limited_requests
            /\ IF RetryStatus(attempt[t], r.status_code)
               THEN Backoff(t, u) /\ stats' = st
               ELSE Finish(t, r, st) /\ UNCHANGED <<sleeps, sleep_left>>
       ELSE /\ last_exception' = [last_exception EXCEPT ![t] = r.exception]
            /\ UNCHANGED rate_limited_requests
            /\ IF should_retry(attempt[t], <<>>, r.exception)
               THEN Backoff(t, u) /\ stats' = st
               ELSE Finish(t, r, st) /\ UNCHANGED <<sleeps, sleep_left>>
    /\ UNCHANGED <<orch_vars, stats_loaded, stats_read, reader_vars, arg_npi, config, tokens, since_refill, lock, total_requests,
                   total_wait_time, timeout, elapsed, ncalls, granted,
                   attempt, fn>>

\* the backoff sleep returned: attempt += 1; continue (the while test)
BackoffWake(t) ==
    /\ pc[t] = "backoff"
    /\ sleep_left[t] = 0
    /\ attempt' = [attempt EXCEPT ![t] = @ + 1]
    /\ LoopTop(t, attempt[t] + 1, last_exception[t], stats)
    /\ UNCHANGED <<orch_vars, counter_vars, reader_vars, arg_npi, config, limiter_vars, sleep_left, ncalls, granted,
                   last_exception, responses, sleeps, fn>>

----------------------------------------------------------------------------
(* MultiYearOrchestrator: its state *)

MaxYears == 2          \* largest number of years (partitions)
MaxNpis == 2           \* largest number of loaded identifiers

YearIds == 1..MaxYears
\* the progress sinks: the caller's progress_callback, and the tqdm bar of
\* each year that is used when the caller passed none
CallerSink == 0
Sinks == {CallerSink} \cup YearIds

Range(seq) == {seq[j] : j \in 1..Len(seq)}
\* the lists <<1, ..., n>>: NPIReader.read_npis returns distinct identifiers
ListsUpTo(n) == {[j \in 1..k |-> j] : k \in 0..n}

\* what get_eligibility(npi, year) does for process_year: it returns
\* (response, metadata with success), returns (None, metadata of a failure),
\* or raises
FetchResults == {"ok", "failed", "raise"}
\* the statement of the per-identifier step that raises, if any
StepFaults == {"none", "save", "process", "callback", "checkpoint"}

InitOrchestrator(npi_lists, year_lists) ==
    /\ npis \in npi_lists
    /\ years \in year_lists
    /\ parallel = FALSE
    /\ progress_callback = FALSE
    /\ checkpoint_interval = 1
    /\ main = "idle"
    /\ wstate = [y \in YearIds |-> "none"]
    /\ idx = [y \in YearIds |-> 0]
    /\ year_results = [y \in YearIds |-> {}]
    /\ failed_count = [y \in YearIds |-> 0]
    /\ successful_count = [y \in YearIds |-> 0]
    /\ fetched = [y \in YearIds |-> <<>>]
    /\ delivered = [s \in Sinks |-> <<>>]
    /\ checkpoint = [y \in YearIds |-> 0]
    /\ all_results = {}
    /\ resumed = FALSE
    /\ checkpoint_read = [y \in YearIds |-> 0]
    /\ succeeded = [y \in YearIds |-> {}]
    /\ checkpoint_counts = [y \in YearIds |-> <<0, 0>>]
    /\ summary_saved = FALSE

\* the variables of one run that a restart of the process sets anew
run_vars == <<main, wstate, idx, year_results, failed_count, successful_count, fetched,
              delivered, all_results, succeeded, checkpoint_counts,
              summary_saved>>
args_vars == <<parallel, progress_callback, checkpoint_interval>>
input_vars == <<npis, years>>
disk_vars == <<checkpoint, resumed, checkpoint_read>>

----------------------------------------------------------------------------
(* Initial values of the parts a specification does not use *)

InitThreads ==
    /\ pc = [t \in Threads |-> "idle"]
    /\ timeout = [t \in Threads |-> <<>>]
    /\ elapsed = [t \in Threads |-> 0]
    /\ sleep_left = [t \in Threads |-> 0]
    /\ ncalls = [t \in Threads |-> 0]
    /\ granted = [t \in Threads |-> 0]

InitWrapper ==
    /\ attempt = [t \in Threads |-> 0]
    /\ last_exception = [t \in Threads |-> None]
    /\ responses = [t \in Threads |-> <<>>]
    /\ sleeps = [t \in Threads |-> <<>>]
    /\ wret = [t \in Threads |-> <<>>]

InitClient ==
    /\ arg_npi = [t \in Threads |-> <<>>]
    /\ outcome = [t \in Threads |-> <<>>]
    /\ stats = [total_requests |-> 0, successful_requests |-> 0,
                failed_requests |-> 0, not_found_requests |-> 0,
                bad_request_errors |-> 0, rate_limit_errors |-> 0,
                server_errors |-> 0, connection_errors |-> 0]

\* no thread is inside an update of stats
InitCounters ==
    /\ stats_loaded = [t \in Threads |-> <<>>]
    /\ stats_read = [t \in Threads |-> <<>>]

\* NPIReader.__init__, on a file with the given rows
InitReader(row_lists) ==
    /\ csv_rows \in row_lists
    /\ reader = [stats |-> [total_rows |-> 0, valid_npis |-> 0,
                            invalid_npis |-> 0, duplicate_npis |-> 0,
                            blank_npis |-> 0],
                 invalid_npis |-> <<>>, duplicate_npis |-> <<>>]
    /\ read = <<>>

\* RateLimiter.__init__
InitLimiter ==
    /\ tokens = Capacity
    /\ since_refill = 0
    /\ lock = {}
    /\ total_requests = 0
    /\ rate_limited_requests = 0
    /\ total_wait_time = 0

----------------------------------------------------------------------------
(* Threads calling RateLimiter.acquire directly *)

InitLimiterSpec ==
    /\ config \in LimiterConfigs
    /\ InitLimiter /\ InitThreads /\ InitWrapper /\ InitClient
    /\ fn = NoEvaluation
    /\ InitOrchestrator({<<>>}, {<<>>})
    /\ InitCounters /\ InitObserved(FALSE) /\ InitReader({<<>>})

NextLimiter ==
    \/ \E t \in Threads : \E to \in {<<>>, <<AcquireTimeout>>} : StartAcquire(t, to, MaxAcquires)
    \/ \E t \in Threads : AcquireLock(t)
    \/ \E t \in Threads : AcquireLocked(t)
    \/ \E t \in Threads : AcquireCheck(t)
    \/ \E t \in Threads : AcquireWake(t)
    \/ \E t \in Threads : AcquireReturn(t)
    \/ Tick

SpecLimiter == InitLimiterSpec /\ [][NextLimiter]_vars

----------------------------------------------------------------------------
(* The functions of ExponentialBackoff on their own *)

\* retry_delay, max_retry_delay (s) and backoff_factor; a negative
\* retry_delay is what the final max(0, delay) is there for
BackoffConfigs ==
    RateLimitConfig({20}, {1}, {-10, 10, 20}, {10, 40, 80}, {1, 2, 3},
                    0..MaxRetriesBound, BOOLEAN)

AttemptInputs == 0..(MaxRetriesBound + 1)
StatusInputs ==
    {<<>>, <<0>>, <<200>>, <<400>>, <<404>>, <<429>>, <<499>>, <<500>>,
     <<503>>, <<599>>, <<600>>}
ExceptionInputs ==
    {None, "ConnectionError", "TimeoutError", "OSError", "RequestException",
     "ValueError", "RuntimeError"}

InitBackoff ==
    /\ config \in BackoffConfigs
    /\ InitLimiter /\ InitThreads /\ InitWrapper /\ InitClient
    /\ fn = NoEvaluation
    /\ InitOrchestrator({<<>>}, {<<>>})
    /\ InitCounters /\ InitObserved(FALSE) /\ InitReader({<<>>})

NextBackoff ==
    \/ \E att \in AttemptInputs : \E sc \in StatusInputs :
          \E e \in ExceptionInputs : EvalShouldRetry(att, sc, e)
    \/ \E att \in AttemptInputs : \E u \in JitterDraws :
          EvalCalculateDelay(att, u)

SpecBackoff == InitBackoff /\ [][NextBackoff]_vars

----------------------------------------------------------------------------
(* Threads fetching through one CMSEligibilityClient *)

ClientConfigs ==
    RateLimitConfig(SecPerTokenChoices, {1}, {10}, {20}, {2},
                    0..MaxRetriesBound, {TRUE})

Init ==
    /\ config \in ClientConfigs
    /\ InitLimiter /\ InitThreads /\ InitWrapper /\ InitClient
    /\ fn = NoEvaluation
    /\ InitOrchestrator({<<>>}, {<<>>})
    /\ InitCounters /\ InitObserved(FALSE) /\ InitReader({<<>>})

Next ==
    \/ \E t \in Fetchers : \E npi \in NpiInputs : GetEligibility(t, npi)
    \/ \E t \in Fetchers : AcquireLock(t)
    \/ \E t \in Fetchers : AcquireLocked(t)
    \/ \E t \in Fetchers : AcquireCheck(t)
    \/ \E t \in Fetchers : AcquireWake(t)
    \/ \E t \in Fetchers : WrapperTimeout(t)
    \/ \E t \in Fetchers : \E r \in FuncBehaviours : \E u \in JitterEnds :
          FuncResponds(t, r, u)
    \/ \E t \in Fetchers : BackoffWake(t)
    \/ Tick

Spec == Init /\ [][Next]_vars

----------------------------------------------------------------------------
(* The fetching thread beside other users of its limiter *)

NextContended ==
    \/ \E t \in Fetchers : \E npi \in NpiInputs : GetEligibility(t, npi)
    \/ \E t \in Others : StartAcquire(t, <<AcquireTimeout>>, MaxFetches)
    \/ \E t \in Threads : AcquireLock(t)
    \/ \E t \in Threads : AcquireLocked(t)
    \/ \E t \in Threads : AcquireCheck(t)
    \/ \E t \in Threads : AcquireWake(t)
    \/ \E t \in Others : AcquireReturn(t)
    \/ \E t \in Fetchers : WrapperTimeout(t)
    \/ \E t \in Fetchers : \E r \in FuncBehaviours : \E u \in JitterEnds :
          FuncResponds(t, r, u)
    \/ \E t \in Fetchers : BackoffWake(t)
    \/ Tick

SpecContended == Init /\ [][NextContended]_vars

\* every thread keeps running, func returns, and the clock advances
FairSpec ==
    /\ SpecContended
    /\ WF_vars(Tick)
    /\ \A t \in Fetchers :
         WF_vars(\/ AcquireLock(t) \/ AcquireLocked(t) \/ AcquireCheck(t)
                 \/ AcquireWake(t) \/ WrapperTimeout(t) \/ BackoffWake(t)
                 \/ \E r \in FuncBehaviours : \E u \in JitterEnds :
                      FuncResponds(t, r, u))
    /\ \A t \in Others :
         WF_vars(\/ AcquireLock(t) \/ AcquireLocked(t) \/ AcquireCheck(t)
                 \/ AcquireWake(t) \/ AcquireReturn(t))

----------------------------------------------------------------------------
(* process_all_years and process_year *)

ProcessAllYearsParallelIfAsked(par, cb, interval) ==
    /\ main = "idle"
    /\ parallel' = par
    /\ progress_callback' = cb
    /\ checkpoint_interval' = interval
    /\ IF par
       THEN /\ main' = "parallel"
            /\ wstate' = [y \in YearIds |->
                            IF y \in Range(years) THEN "submitted" ELSE "none"]
       ELSE /\ main' = "sequential"
            /\ UNCHANGED wstate
    /\ UNCHANGED <<engine_vars, counter_vars, reader_vars, input_vars,
                   disk_vars, checkpoint_counts, idx, year_results,
                   failed_count, successful_count, fetched, delivered, all_results, succeeded,
                   summary_saved>>

\* process_all_years(progress_callback, checkpoint_interval, parallel):
\* _process_years_parallel submits process_year for every year at once,
\* _process_years_sequential starts its loop
ProcessAllYears(par, cb, interval) ==
    /\ main = "idle"
    /\ parallel' = par
    /\ progress_callback' = cb
    /\ checkpoint_interval' = interval
    /\ IF par /\ Len(years) > 1
       THEN /\ main' = "parallel"
            /\ wstate' = [y \in YearIds |->
                            IF y \in Range(years) THEN "submitted" ELSE "none"]
       ELSE /\ main' = "sequential"
            /\ UNCHANGED wstate
    /\ UNCHANGED <<engine_vars, counter_vars, reader_vars, input_vars,
                   disk_vars, checkpoint_counts, idx, year_results,
                   failed_count, successful_count, fetched, delivered, all_results, succeeded,
                   summary_saved>>

Finished(y) == wstate[y] \in {"returned", "raised"}

\* for year in self.years: year_results = self.process_year(year, ...)
ProcessYearsSequentialCall(y) ==
    /\ main = "sequential"
    /\ \E j \in 1..Len(years) :
          /\ years[j] = y
          /\ wstate[y] = "none"
          /\ \A k \in 1..(j - 1) : years[k] \in all_results
    /\ wstate' = [wstate EXCEPT ![y] = "submitted"]
    /\ UNCHANGED <<engine_vars, counter_vars, reader_vars, input_vars,
                   args_vars, disk_vars, checkpoint_counts, main, idx,
                   year_results, failed_count, successful_count, fetched, delivered,
                   all_results, succeeded, summary_saved>>

\* all_results[year] = year_results, in the sequential loop
ProcessYearsSequentialStore(y) ==
    /\ main = "sequential"
    /\ wstate[y] = "returned"
    /\ y \notin all_results
    /\ all_results' = all_results \cup {y}
    /\ UNCHANGED <<engine_vars, counter_vars, reader_vars, input_vars,
                   args_vars, disk_vars, checkpoint_counts, main, wstate,
                   idx, year_results, failed_count, successful_count, fetched, delivered,
                   succeeded, summary_saved>>

\* process_year raised in the sequential loop: process_all_years re-raises
ProcessYearsSequentialRaise ==
    /\ main = "sequential"
    /\ \E y \in Range(years) : wstate[y] = "raised"
    /\ main' = "raised"
    /\ UNCHANGED <<engine_vars, counter_vars, reader_vars, input_vars,
                   args_vars, disk_vars, checkpoint_counts, wstate, idx,
                   year_results, failed_count, successful_count, fetched, delivered,
                   all_results, succeeded, summary_saved>>

\* the sequential loop is over: _save_processing_summary; return all_results
ProcessYearsSequentialReturn ==
    /\ main = "sequential"
    /\ all_results = Range(years)
    /\ summary_saved' = TRUE
    /\ main' = "returned"
    /\ UNCHANGED <<engine_vars, counter_vars, reader_vars, input_vars,
                   args_vars, disk_vars, checkpoint_counts, wstate, idx,
                   year_results, failed_count, successful_count, fetched, delivered,
                   all_results, succeeded>>

\* process_year up to its loop: ValueError when no identifier is loaded;
\* year_output_dir.mkdir can fail
ProcessYearEnter(y, mkdir_ok) ==
    /\ wstate[y] = "submitted"
    /\ wstate' = [wstate EXCEPT ![y] =
                    IF npis = <<>> \/ ~mkdir_ok THEN "raised" ELSE "loop"]
    /\ idx' = [idx EXCEPT ![y] = 0]
    /\ year_results' = [year_results EXCEPT ![y] = {}]
    /\ failed_count' = [failed_count EXCEPT ![y] = 0]
    /\ successful_count' = [successful_count EXCEPT ![y] = 0]
    /\ succeeded' = [succeeded EXCEPT ![y] = {}]
    /\ UNCHANGED <<engine_vars, counter_vars, reader_vars, input_vars,
                   args_vars, disk_vars, checkpoint_counts, main, fetched,
                   delivered, all_results, summary_saved>>

NextNpiFromEnd(y) == npis[Len(npis) - idx[y]]

\* for i, npi in enumerate(self.npis)
NextNpi(y) == npis[idx[y] + 1]

\* self.cms_client.get_eligibility(npi, year) is called
ProcessYearFetch(y) ==
    /\ wstate[y] = "loop"
    /\ idx[y] < Len(npis)
    /\ wstate' = [wstate EXCEPT ![y] = "fetching"]
    /\ fetched' = [fetched EXCEPT ![y] = Append(@, NextNpi(y))]
    /\ UNCHANGED <<engine_vars, counter_vars, reader_vars, input_vars,
                   args_vars, disk_vars, checkpoint_counts, main, idx,
                   year_results, failed_count, successful_count, delivered, all_results,
                   succeeded, summary_saved>>

OnStepExceptionPropagates == "raised"

\* except Exception as e: failed_count += 1; continue
OnStepException == "loop"

\* progress_callback of process_year: the caller's, or the bar of the year
ProgressSink(y) == IF progress_callback THEN CallerSink ELSE y

CheckpointDueEveryStep(current) == TRUE

\* if (i + 1) % checkpoint_interval == 0
CheckpointDue(current) == current % checkpoint_interval = 0

\* _save_checkpoint's successful_npis and failed_npis: the entries of
\* year_results with metadata.success, and those without
CheckpointCounts(results, successes) ==
    <<Cardinality(results \cap successes), Cardinality(results \ successes)>>

\* get_eligibility ends with r, and the rest of the step for that identifier
\* runs: year_results[npi], the raw file, the records, the progress callback
\* and the checkpoint; the statement named by fault raises
ProcessYearStep(y, r, fault) ==
    LET current == idx[y] + 1
        save_raises == r = "ok" /\ fault = "save"
        process_raises == r = "ok" /\ fault = "process"
        callback_reached == r /= "raise" /\ ~save_raises
        callback_raises == callback_reached /\ fault = "callback"
        checkpoint_reached == /\ callback_reached /\ ~callback_raises
                              /\ CheckpointDue(current)
        checkpoint_raises == checkpoint_reached /\ fault = "checkpoint"
        step_raises == \/ r = "raise" \/ save_raises \/ callback_raises
                       \/ checkpoint_raises
        not_successful == callback_reached /\ (r = "failed" \/ process_raises)
        processed == r = "ok" /\ ~save_raises /\ ~process_raises
    IN
    /\ wstate[y] = "fetching"
    /\ fault = "none" \/ save_raises \/ process_raises \/ callback_raises
          \/ checkpoint_raises
    /\ year_results' = [year_results EXCEPT ![y] =
          IF r = "raise" THEN @ ELSE @ \cup {NextNpi(y)}]
    /\ delivered' = IF callback_reached
                    THEN [delivered EXCEPT ![ProgressSink(y)] =
                             Append(@, current)]
                    ELSE delivered
    /\ succeeded' = [succeeded EXCEPT ![y] =
          IF r = "ok" THEN @ \cup {NextNpi(y)} ELSE @]
    /\ checkpoint' = IF checkpoint_reached /\ ~checkpoint_raises
                     THEN [checkpoint EXCEPT ![y] = current]
                     ELSE checkpoint
    /\ checkpoint_counts' =
          IF checkpoint_reached /\ ~checkpoint_raises
          THEN [checkpoint_counts EXCEPT ![y] =
                   CheckpointCounts(year_results'[y], succeeded'[y])]
          ELSE checkpoint_counts
    /\ failed_count' = [failed_count EXCEPT ![y] =
          @ + (IF not_successful THEN 1 ELSE 0) + (IF step_raises THEN 1 ELSE 0)]
    /\ successful_count' = [successful_count EXCEPT ![y] =
          @ + (IF processed THEN 1 ELSE 0)]
    /\ idx' = [idx EXCEPT ![y] = current]
    /\ wstate' = [wstate EXCEPT ![y] =
                    IF step_raises THEN OnStepException ELSE "loop"]
    /\ UNCHANGED <<engine_vars, counter_vars, reader_vars, input_vars,
                   args_vars, resumed, checkpoint_read, main, fetched,
                   all_results, summary_saved>>

\* the loop is over: self.processing_results[year] = year_results; the
\* quality report; return
ProcessYearReturn(y) ==
    /\ wstate[y] = "loop"
    /\ idx[y] = Len(npis)
    /\ wstate' = [wstate EXCEPT ![y] = "returned"]
    /\ UNCHANGED <<engine_vars, counter_vars, reader_vars, input_vars,
                   args_vars, disk_vars, checkpoint_counts, main, idx,
                   year_results, failed_count, successful_count, fetched, delivered,
                   all_results, succeeded, summary_saved>>

\* for future in as_completed(future_to_year): future.result() returns the
\* year's result, or raises what process_year raised
AsCompleted(y) ==
    /\ main = "parallel"
    /\ y \in Range(years)
    /\ Finished(y)
    /\ y \notin all_results
    /\ IF wstate[y] = "returned"
       THEN all_results' = all_results \cup {y} /\ UNCHANGED main
       ELSE main' = "unwinding" /\ UNCHANGED all_results
    /\ UNCHANGED <<engine_vars, counter_vars, reader_vars, input_vars,
                   args_vars, disk_vars, checkpoint_counts, wstate, idx,
                   year_results, failed_count, successful_count, fetched, delivered, succeeded,
                   summary_saved>>

ExecutorShutdownNoWait ==
    /\ main = "unwinding"
    /\ main' = "raised"
    /\ UNCHANGED <<engine_vars, counter_vars, reader_vars, input_vars,
                   args_vars, disk_vars, checkpoint_counts, wstate, idx,
                   year_results, failed_count, successful_count, fetched, delivered,
                   all_results, succeeded, summary_saved>>

\* the raise leaves "with ThreadPoolExecutor(...) as executor":
\* shutdown(wait=True) returns when every submitted process_year has ended,
\* then process_all_years re-raises
ExecutorShutdown ==
    /\ main = "unwinding"
    /\ \A y \in Range(years) : Finished(y)
    /\ main' = "raised"
    /\ UNCHANGED <<engine_vars, counter_vars, reader_vars, input_vars,
                   args_vars, disk_vars, checkpoint_counts, wstate, idx,
                   year_results, failed_count, successful_count, fetched, delivered,
                   all_results, succeeded, summary_saved>>

\* every future was collected: _save_processing_summary; return all_results
ProcessYearsParallelReturn ==
    /\ main = "parallel"
    /\ all_results = Range(years)
    /\ summary_saved' = TRUE
    /\ main' = "returned"
    /\ UNCHANGED <<engine_vars, counter_vars, reader_vars, input_vars,
                   args_vars, disk_vars, checkpoint_counts, wstate, idx,
                   year_results, failed_count, successful_count, fetched, delivered,
                   all_results, succeeded>>

\* the process ends, at any point after a checkpoint was written, and is
\* started again on the same input: a new orchestrator, load_npis, and
\* resume_from_checkpoint(year), which returns the checkpoint's data
Restart ==
    /\ ~resumed
    /\ main /= "idle"
    /\ \E y \in Range(years) : checkpoint[y] > 0
    /\ resumed' = TRUE
    /\ checkpoint_read' = checkpoint
    /\ main' = "idle"
    /\ wstate' = [y \in YearIds |-> "none"]
    /\ idx' = [y \in YearIds |-> 0]
    /\ year_results' = [y \in YearIds |-> {}]
    /\ failed_count' = [y \in YearIds |-> 0]
    /\ successful_count' = [y \in YearIds |-> 0]
    /\ succeeded' = [y \in YearIds |-> {}]
    /\ fetched' = [y \in YearIds |-> <<>>]
    /\ delivered' = [s \in Sinks |-> <<>>]
    /\ all_results' = {}
    /\ checkpoint_counts' = [y \in YearIds |-> <<0, 0>>]
    /\ summary_saved' = FALSE
    /\ UNCHANGED <<engine_vars, counter_vars, reader_vars, input_vars,
                   args_vars, checkpoint>>

\* checkpoint_interval of the runs
CheckpointIntervals == {1, MaxNpis}

InitOrch ==
    /\ config \in RateLimitConfig({30}, {1}, {10}, {20}, {2}, {0}, {TRUE})
    /\ InitLimiter /\ InitThreads /\ InitWrapper /\ InitClient
    /\ fn = NoEvaluation
    /\ InitOrchestrator(ListsUpTo(MaxNpis), ListsUpTo(MaxYears))
    /\ InitCounters /\ InitObserved(FALSE) /\ InitReader({<<>>})

NextOrch ==
    \/ \E par \in BOOLEAN : \E cb \in BOOLEAN :
          \E interval \in CheckpointIntervals : ProcessAllYears(par, cb, interval)
    \/ \E y \in YearIds : ProcessYearsSequentialCall(y)
    \/ \E y \in YearIds : ProcessYearsSequentialStore(y)
    \/ ProcessYearsSequentialRaise
    \/ ProcessYearsSequentialReturn
    \/ \E y \in YearIds : \E mkdir_ok \in BOOLEAN : ProcessYearEnter(y, mkdir_ok)
    \/ \E y \in YearIds : ProcessYearFetch(y)
    \/ \E y \in YearIds : \E r \in FetchResults : \E fault \in StepFaults :
          ProcessYearStep(y, r, fault)
    \/ \E y \in YearIds : ProcessYearReturn(y)
    \/ \E y \in YearIds : AsCompleted(y)
    \/ ExecutorShutdown
    \/ ProcessYearsParallelReturn

SpecOrch == InitOrch /\ [][NextOrch]_vars

\* runs of process_all_years with one restart of the process
NextResume == NextOrch \/ Restart

SpecResume == InitOrch /\ [][NextResume]_vars

----------------------------------------------------------------------------
(* Threads that share one CMSEligibilityClient: its statistics *)

MaxCounted == 2        \* largest number of fetches of one thread

\* the first half of self.stats[k] += 1: the thread reads stats[k]
StatsLoad(t, k, from, to) ==
    /\ pc[t] = from
    /\ stats_loaded' = [stats_loaded EXCEPT ![t] = <<stats[k]>>]
    /\ pc' = [pc EXCEPT ![t] = to]
    /\ UNCHANGED stats

\* the second half: it stores what it read, plus one
StatsStore(t, k, from, to) ==
    /\ pc[t] = from
    /\ stats' = [stats EXCEPT ![k] = stats_loaded[t][1] + 1]
    /\ stats_loaded' = [stats_loaded EXCEPT ![t] = <<>>]
    /\ pc' = [pc EXCEPT ![t] = to]

counted_unchanged ==
    <<orch_vars, reader_vars, config, limiter_vars, timeout, elapsed,
      sleep_left, granted, wrapper_vars, outcome, fn, arg_npi, stats_read,
      observed>>

\* _make_request_impl got a response: self.stats['total_requests'] += 1
RequestCountLoad(t) ==
    /\ ncalls[t] < MaxCounted
    /\ StatsLoad(t, "total_requests", "idle", "request_loaded")
    /\ UNCHANGED <<counted_unchanged, ncalls>>

RequestCountStore(t) ==
    /\ StatsStore(t, "total_requests", "request_loaded", "request_counted")
    /\ UNCHANGED <<counted_unchanged, ncalls>>

\* get_eligibility, the response is a 200 that validates:
\* self.stats['successful_requests'] += 1
SuccessCountLoad(t) ==
    /\ StatsLoad(t, "successful_requests", "request_counted", "success_loaded")
    /\ UNCHANGED <<counted_unchanged, ncalls>>

\* ... and get_eligibility returns
SuccessCountStore(t) ==
    /\ StatsStore(t, "successful_requests", "success_loaded", "idle")
    /\ ncalls' = [ncalls EXCEPT ![t] = @ + 1]
    /\ UNCHANGED counted_unchanged

InitCountersSpec ==
    /\ config \in RateLimitConfig({30}, {1}, {10}, {20}, {2}, {0}, {TRUE})
    /\ InitLimiter /\ InitThreads /\ InitWrapper /\ InitClient
    /\ fn = NoEvaluation
    /\ InitOrchestrator({<<>>}, {<<>>})
    /\ InitCounters /\ InitObserved(FALSE) /\ InitReader({<<>>})

NextCounters ==
    \/ \E t \in Threads : RequestCountLoad(t)
    \/ \E t \in Threads : RequestCountStore(t)
    \/ \E t \in Threads : SuccessCountLoad(t)
    \/ \E t \in Threads : SuccessCountStore(t)

SpecCounters == InitCountersSpec /\ [][NextCounters]_vars

----------------------------------------------------------------------------
(* Partition workers on one client, and callers of its get_stats *)

LockConfigs ==
    RateLimitConfig({30}, {1}, {10}, {20}, {2}, {1}, {TRUE})

stats_unchanged ==
    <<orch_vars, reader_vars, stats_loaded, observed, config, tokens, since_refill,
      total_requests, rate_limited_requests, total_wait_time, timeout,
      elapsed, sleep_left, ncalls, granted, wrapper_vars, client_vars, fn,
      arg_npi>>

\* CMSEligibilityClient.get_stats: stats = self.stats.copy(), then the call
\* of self.rate_limiter.get_stats()
GetStats(t) ==
    /\ pc[t] \in {"idle", "done"}
    /\ stats_read' = [stats_read EXCEPT ![t] = <<stats>>]
    /\ pc' = [pc EXCEPT ![t] = "stats_enter"]
    /\ UNCHANGED <<stats_unchanged, lock>>

\* RateLimiter.get_stats: with self.lock: (entry)
GetStatsLock(t) ==
    /\ pc[t] = "stats_enter"
    /\ lock = {}
    /\ lock' = {t}
    /\ pc' = [pc EXCEPT ![t] = "stats_locked"]
    /\ UNCHANGED <<stats_unchanged, stats_read>>

\* the dict of RateLimiter.get_stats (requests_per_second is config's)
LimiterStats ==
    [total_requests |-> total_requests,
     rate_limited_requests |-> rate_limited_requests,
     total_wait_time |-> total_wait_time,
     current_tokens |-> tokens]

\* stats.update(limiter's dict) and the derived success_rate, as the pair
\* successful_requests, total_requests (the request times are left out)
MergedStats(copy, limiter_stats) ==
    LET merged == limiter_stats @@ copy IN
    [success_rate |-> IF merged.total_requests > 0
                      THEN <<merged.successful_requests, merged.total_requests>>
                      ELSE <<0, 1>>] @@ merged

GetStatsReadKeepsLock(t) ==
    /\ pc[t] = "stats_locked"
    /\ lock = {t}
    /\ stats_read' = [stats_read EXCEPT ![t] = <<MergedStats(@[1], LimiterStats)>>]
    /\ lock' = lock
    /\ pc' = [pc EXCEPT ![t] = IF outcome[t] = <<>> THEN "idle" ELSE "done"]
    /\ UNCHANGED stats_unchanged

\* the body of the with block of RateLimiter.get_stats, the release of the
\* lock, and the rest of CMSEligibilityClient.get_stats
GetStatsRead(t) ==
    /\ pc[t] = "stats_locked"
    /\ lock = {t}
    /\ stats_read' = [stats_read EXCEPT ![t] = <<MergedStats(@[1], LimiterStats)>>]
    /\ lock' = {}
    /\ pc' = [pc EXCEPT ![t] = IF outcome[t] = <<>> THEN "idle" ELSE "done"]
    /\ UNCHANGED stats_unchanged

InitLocks ==
    /\ config \in LockConfigs
    /\ InitLimiter /\ InitThreads /\ InitWrapper /\ InitClient
    /\ fn = NoEvaluation
    /\ InitOrchestrator({<<>>}, {<<>>})
    /\ InitCounters /\ InitObserved(FALSE) /\ InitReader({<<>>})

\* what a thread can do next: the fetching worker runs get_eligibility, the
\* others take their tokens from the limiter directly; all call get_stats
WorkerStep(t) ==
    \/ /\ t \in Fetchers
       /\ \/ \E npi \in NpiInputs : GetEligibility(t, npi)
          \/ WrapperTimeout(t)
          \/ \E r \in FuncBehaviours : \E u \in JitterEnds : FuncResponds(t, r, u)
          \/ BackoffWake(t)
    \/ /\ t \in Others
       /\ \/ StartAcquire(t, <<AcquireTimeout>>, MaxFetches)
          \/ AcquireReturn(t)
    \/ AcquireLock(t)
    \/ AcquireLocked(t)
    \/ AcquireCheck(t)
    \/ AcquireWake(t)
    \/ GetStats(t)
    \/ GetStatsLock(t)
    \/ GetStatsRead(t)

NextLocks ==
    \/ \E t \in Threads : WorkerStep(t)
    \/ Tick

SpecLocks == InitLocks /\ [][NextLocks]_vars

----------------------------------------------------------------------------
(* The partition workers of one orchestrator, fetching through its client *)

RateConfigs ==
    RateLimitConfig({30}, 1..MaxBurst, {10}, {20}, {2}, {1}, {TRUE})

\* the server answers a fetch, or asks the worker to slow down
RateBehaviours == {Response(200, TRUE), Response(429, FALSE)}

InitRate ==
    /\ config \in RateConfigs
    /\ InitLimiter /\ InitThreads /\ InitWrapper /\ InitClient
    /\ fn = NoEvaluation
    /\ InitOrchestrator({<<>>}, {<<>>})
    /\ InitCounters /\ InitObserved(TRUE) /\ InitReader({<<>>})

\* process_year of each partition calls self.cms_client.get_eligibility
NextRate ==
    \/ \E t \in Threads : \E npi \in NpiInputs : GetEligibility(t, npi)
    \/ \E t \in Threads : AcquireLock(t)
    \/ \E t \in Threads : AcquireLocked(t)
    \/ \E t \in Threads : AcquireCheck(t)
    \/ \E t \in Threads : AcquireWake(t)
    \/ \E t \in Threads : WrapperTimeout(t)
    \/ \E t \in Threads : \E r \in RateBehaviours : \E u \in JitterEnds :
          FuncResponds(t, r, u)
    \/ \E t \in Threads : BackoffWake(t)
    \/ Tick

SpecRate == InitRate /\ [][NextRate]_vars

----------------------------------------------------------------------------
(* Threads that call RateLimiter.acquire without timeout, again and again *)

StarveConfigs == RateLimitConfig({30}, {1}, {10}, {20}, {2}, {0}, {TRUE})

InitStarve ==
    /\ config \in StarveConfigs
    /\ InitLimiter /\ InitThreads /\ InitWrapper /\ InitClient
    /\ fn = NoEvaluation
    /\ InitOrchestrator({<<>>}, {<<>>})
    /\ InitCounters /\ InitObserved(FALSE) /\ InitReader({<<>>})

\* while True: limiter.acquire()
CallerStep(t) ==
    \/ StartAcquire(t, <<>>, CounterCap + 1)
    \/ AcquireLock(t)
    \/ AcquireLocked(t)
    \/ AcquireCheck(t)
    \/ AcquireWake(t)
    \/ AcquireReturn(t)

NextStarve ==
    \/ \E t \in Threads : CallerStep(t)
    \/ Tick

SpecStarve == InitStarve /\ [][NextStarve]_vars

\* the clock advances, every thread keeps running, and a thread that is
\* again and again able to take the lock does take it
FairStarve ==
    /\ SpecStarve
    /\ WF_vars(Tick)
    /\ \A t \in Threads : WF_vars(CallerStep(t))
    /\ \A t \in Threads : SF_vars(AcquireLock(t))

----------------------------------------------------------------------------
(* NPIReader *)

MaxRows == 3           \* largest number of data rows of the CSV file
MaxReads == 2          \* largest number of read_npis calls on one reader

\* ^\d{10}$
NpiDigits == 10

Whitespace == {" "}
DigitChars == {"1", "2"}

\* a string is the sequence of its characters
Repeat(c, n) == [j \in 1..n |-> c]

RECURSIVE LStrip(_)
LStrip(str) ==
    IF str /= <<>> /\ Head(str) \in Whitespace THEN LStrip(Tail(str)) ELSE str

RECURSIVE RStrip(_)
RStrip(str) ==
    IF str /= <<>> /\ str[Len(str)] \in Whitespace
    THEN RStrip(SubSeq(str, 1, Len(str) - 1))
    ELSE str

\* str.strip()
strip(str) == RStrip(LStrip(str))

\* validate_npi: re.match(r'^\d{10}$', npi.strip())
validate_npi(npi) ==
    /\ npi /= <<>>
    /\ Len(strip(npi)) = NpiDigits
    /\ \A j \in 1..Len(strip(npi)) : strip(npi)[j] \in DigitChars

\* the values of the npi field: empty, blank, two well-formed identifiers,
\* one of them also with spaces around it, too short, with a letter
Cells ==
    {<<>>, <<" ">>, Repeat("1", NpiDigits), Repeat("2", NpiDigits),
     <<" ">> \o Repeat("1", NpiDigits) \o <<" ">>,
     Repeat("1", NpiDigits \div 2),
     Repeat("1", NpiDigits - 1) \o <<"a">>}

\* a row: its npi field, or <<>> for a row that is shorter than the header
\* (csv.DictReader gives such a field the value None)
Rows == {<<>>} \cup {<<c>> : c \in Cells}

RECURSIVE RowLists(_)
RowLists(n) ==
    IF n = 0 THEN {<<>>}
    ELSE RowLists(n - 1)
         \cup {Append(l, r) : l \in {m \in RowLists(n - 1) : Len(m) = n - 1},
                              r \in Rows}

IsDuplicateNever(npi, seen_npis) == FALSE

\* if npi in seen_npis
IsDuplicate(npi, seen_npis) == npi \in seen_npis

\* one pass of the loop over the rows; acc holds npis, seen_npis, the
\* reader's attributes, and whether an exception left the loop
ReadRow(acc, row_num, row, skip) ==
    LET counted == [acc EXCEPT !.stats.total_rows = @ + 1] IN
    IF acc.raised THEN acc
    ELSE IF row = <<>> THEN [counted EXCEPT !.raised = TRUE]
    ELSE LET npi == strip(row[1]) IN
         IF npi = <<>> THEN [counted EXCEPT !.stats.blank_npis = @ + 1]
         ELSE IF ~skip /\ ~validate_npi(npi)
              THEN [counted EXCEPT !.stats.invalid_npis = @ + 1,
                                   !.invalid_npis = Append(@, <<row_num, npi>>)]
         ELSE IF IsDuplicate(npi, acc.seen_npis)
              THEN [counted EXCEPT !.stats.duplicate_npis = @ + 1,
                                   !.duplicate_npis = Append(@, <<row_num, npi>>)]
         ELSE [counted EXCEPT !.npis = Append(@, npi),
                              !.seen_npis = @ \cup {npi},
                              !.stats.valid_npis = @ + 1]

RECURSIVE ReadRows(_, _, _, _)
ReadRows(acc, rows, n, skip) ==
    IF n = 0 THEN acc
    ELSE ReadRow(ReadRows(acc, rows, n - 1, skip), n + 1, rows[n], skip)

\* read_npis(skip_validation) on the reader rd: the header is row 1
read_npis(rd, rows, skip) ==
    ReadRows([npis |-> <<>>, seen_npis |-> {}, stats |-> rd.stats,
              invalid_npis |-> rd.invalid_npis,
              duplicate_npis |-> rd.duplicate_npis, raised |-> FALSE],
             rows, Len(rows), skip)

\* a call of read_npis: it returns npis, or the exception is raised again
ReadNpis(skip) ==
    /\ Len(read) < MaxReads
    /\ LET r == read_npis(reader, csv_rows, skip) IN
         /\ reader' = [stats |-> r.stats, invalid_npis |-> r.invalid_npis,
                       duplicate_npis |-> r.duplicate_npis]
         /\ read' = Append(read, [skip_validation |-> skip,
                                  raised |-> r.raised,
                                  npis |-> IF r.raised THEN <<>> ELSE r.npis])
    /\ UNCHANGED <<engine_vars, orch_vars, counter_vars, csv_rows>>

InitReaderSpec ==
    /\ config \in RateLimitConfig({30}, {1}, {10}, {20}, {2}, {0}, {TRUE})
    /\ InitLimiter /\ InitThreads /\ InitWrapper /\ InitClient
    /\ fn = NoEvaluation
    /\ InitOrchestrator({<<>>}, {<<>>})
    /\ InitCounters /\ InitObserved(FALSE) /\ InitReader(RowLists(MaxRows))

NextReader == \E skip \in BOOLEAN : ReadNpis(skip)

SpecReader == InitReaderSpec /\ [][NextReader]_vars

----------------------------------------------------------------------------
(* Properties *)

Last(seq) == seq[Len(seq)]
IsStatus(r, status) == r.kind = "response" /\ r.status_code = status
\* a transport error: an exception of requests, an OSError
IsTransportError(r) == r.kind = "raise" /\ r.exception = "RequestException"

\* C1: in every reachable state of a RateLimiter the token count is at least
\* 0 and at most burst_requests, and every acquire that returns True lowers
\* the token count by exactly one token relative to its value after the
\* refill of the same locked step.
C1_TokenConservation ==
    /\ [](0 <= tokens /\ tokens <= config.burst_requests * config.sec_per_token)
    /\ [][\A t \in Threads :
            (pc[t] = "acq_locked" /\ pc'[t] = "acq_true") =>
               LET after_refill ==
                     Min(config.burst_requests * config.sec_per_token,
                         tokens + since_refill)
               IN  /\ tokens' = after_refill - config.sec_per_token
                   /\ total_requests' = total_requests + 1]_vars

\* a caller that had to wait for the refill is granted the second token,
\* which leaves less than one whole token
C1_Witness ==
    \E t \in Threads :
        /\ pc[t] = "acq_true"
        /\ total_wait_time > 0
        /\ total_requests >= 2
        /\ tokens < config.sec_per_token

\* C2: one call of the wrapper invokes func at most max_retries + 1 times;
\* attempt starts at 0, is one more at each retry and never exceeds
\* max_retries.
C2_AttemptsBounded ==
    \A t \in Fetchers :
        /\ Len(responses[t]) <= config.max_retries + 1
        /\ 0 <= attempt[t] /\ attempt[t] <= config.max_retries
        /\ \A i \in 1..Len(sleeps[t]) : sleeps[t][i][1] = i - 1
        /\ attempt[t] = IF pc[t] = "backoff" THEN Len(sleeps[t]) - 1
                                             ELSE Len(sleeps[t])

\* a call that used all its attempts, with the largest max_retries
C2_Witness ==
    \E t \in Fetchers :
        /\ pc[t] = "done"
        /\ config.max_retries = MaxRetriesBound
        /\ Len(responses[t]) = config.max_retries + 1
        /\ attempt[t] = config.max_retries

\* C3: every call of the wrapper eventually ends, by returning or raising,
\* whatever func does and whatever the state of the bucket, also when other
\* threads keep it empty.
C3_WrapperTerminates ==
    \A t \in Fetchers : (pc[t] \notin {"idle", "done"}) ~> (pc[t] = "done")

\* another thread took the only token and the fetch ended by the limiter's
\* timeout, before any invocation of func
C3_Witness ==
    \E t \in Fetchers :
        /\ pc[t] = "done"
        /\ wret[t] = <<Raised("TimeoutError")>>
        /\ responses[t] = <<>>
        /\ total_requests >= 1

\* C4: when the first response has status 404 or 400, the fetch makes exactly
\* one network call and consumes exactly one token: no backoff sleep, no
\* second invocation, whatever max_retries is.
C4_ClientErrorNotRetried ==
    \A t \in Fetchers :
        (/\ Len(responses[t]) >= 1
         /\ (IsStatus(responses[t][1], 404) \/ IsStatus(responses[t][1], 400)))
        => /\ pc[t] = "done"
           /\ Len(responses[t]) = 1
           /\ granted[t] = 1
           /\ sleeps[t] = <<>>

\* a 404 as the first response while retries were allowed
C4_Witness ==
    \E t \in Fetchers :
        /\ pc[t] = "done"
        /\ config.max_retries = MaxRetriesBound
        /\ responses[t] = <<Response(404, FALSE)>>

\* the delays one backoff sleep at that attempt can have: the capped
\* exponential delay, 10 % less or 10 % more
DelaysAt(att) ==
    LET d == Min(config.retry_delay * config.backoff_factor ^ att,
                 config.max_retry_delay)
    IN  IF config.jitter THEN {d - d \div 10, d, d + d \div 10} ELSE {d}

Only429(seq) == \A i \in 1..Len(seq) : IsStatus(seq[i], 429)

\* C5: if func returns 429 on its first k calls (0 <= k <= max_retries) and
\* 200 with a valid body on call k+1, get_eligibility makes exactly k+1
\* network calls and exactly k backoff sleeps, one calculate_delay(attempt)
\* for attempt = 0..k-1 in that order, and the outcome has success = True.
\* While only 429 responses have come and attempts are left, the fetch goes
\* on, unless the limiter timed out.
C5_RateLimitedThenSuccess ==
    \A t \in Fetchers :
        /\ (/\ responses[t] /= <<>>
            /\ Last(responses[t]) = Response(200, TRUE)
            /\ Only429(SubSeq(responses[t], 1, Len(responses[t]) - 1)))
           => LET k == Len(responses[t]) - 1 IN
              /\ pc[t] = "done"
              /\ k <= config.max_retries
              /\ granted[t] = k + 1
              /\ Len(sleeps[t]) = k
              /\ \A i \in 1..k : /\ sleeps[t][i][1] = i - 1
                                 /\ sleeps[t][i][2] \in DelaysAt(i - 1)
              /\ outcome[t] /= <<>>
              /\ outcome[t][1].success
        /\ (/\ responses[t] /= <<>>
            /\ Only429(responses[t])
            /\ Len(responses[t]) <= config.max_retries
            /\ pc[t] = "done")
           => wret[t] = <<Raised("TimeoutError")>>

\* 429 on every attempt but the last, which is a 200 with a valid body
C5_Witness ==
    \E t \in Fetchers :
        /\ pc[t] = "done"
        /\ config.max_retries = MaxRetriesBound
        /\ Len(responses[t]) = config.max_retries + 1
        /\ Last(responses[t]) = Response(200, TRUE)
        /\ Only429(SubSeq(responses[t], 1, Len(responses[t]) - 1))

\* C6: when all max_retries + 1 attempts fail the wrapper surfaces the last
\* failure and never reports success: a last 429 is returned as the result,
\* a last transport error is raised.
C6_ExhaustionSurfacesLastFailure ==
    \A t \in Fetchers :
        (/\ Len(responses[t]) = config.max_retries + 1
         /\ (IsStatus(Last(responses[t]), 429) \/ IsTransportError(Last(responses[t]))))
        => /\ pc[t] = "done"
           /\ wret[t] = <<Last(responses[t])>>
           /\ outcome[t] /= <<>>
           /\ ~outcome[t][1].success

\* retries exhausted with a 429 last, after at least one transport error
C6_Witness ==
    \E t \in Fetchers :
        /\ pc[t] = "done"
        /\ config.max_retries = MaxRetriesBound
        /\ Len(responses[t]) = config.max_retries + 1
        /\ IsTransportError(responses[t][1])
        /\ wret[t] = <<Response(429, FALSE)>>

\* C7: if acquire(timeout=30) returns False on any attempt the wrapper fails
\* at once with the rate-limiter-timeout error: func is not invoked on that
\* attempt, no backoff sleep is taken and no further attempt is made, even
\* when attempt < max_retries.
C7_LimiterTimeoutIsTerminal ==
    [][\A t \in Fetchers :
         pc[t] = "acq_false" =>
            \/ pc'[t] = "acq_false" /\ responses'[t] = responses[t]
                 /\ sleeps'[t] = sleeps[t] /\ granted'[t] = granted[t]
            \/ /\ pc'[t] = "done"
               /\ wret'[t] = <<Raised("TimeoutError")>>
               /\ ~outcome'[t][1].success
               /\ responses'[t] = responses[t]
               /\ sleeps'[t] = sleeps[t]
               /\ granted'[t] = granted[t]
               /\ attempt'[t] = attempt[t]]_vars

\* the limiter timed out on a retry, with attempts left
C7_Witness ==
    \E t \in Fetchers :
        /\ pc[t] = "done"
        /\ wret[t] = <<Raised("TimeoutError")>>
        /\ Len(responses[t]) >= 1
        /\ attempt[t] < config.max_retries

\* C8: a 5xx response is retried while attempt < max_retries, so a fetch
\* ends with a server-error outcome only after max_retries + 1 network
\* calls, and a fetch whose first response is a 500 is not over.
C8_ServerErrorRetried ==
    \A t \in Fetchers :
        /\ (/\ pc[t] = "done"
            /\ outcome[t] /= <<>>
            /\ outcome[t][1].status_code /= <<>>
            /\ Head(outcome[t][1].status_code) >= 500
            /\ Head(outcome[t][1].status_code) < 600)
           => Len(responses[t]) = config.max_retries + 1
        /\ (/\ responses[t] = <<Response(500, FALSE)>>
            /\ config.max_retries >= 1)
           => pc[t] /= "done"

\* the classes that are ConnectionError, TimeoutError or OSError
TransportClasses ==
    {"ConnectionError", "TimeoutError", "OSError", "RequestException"}

\* C9: should_retry(attempt, status, exception) is True exactly when
\* attempt < max_retries and (status = 429, or 500 <= status < 600, or the
\* exception is a ConnectionError, TimeoutError or OSError); it is False for
\* status 400 and 404 (and no exception) at every attempt, and False for
\* every input once attempt >= max_retries.
C9_ShouldRetry ==
    fn.op = "should_retry" =>
        /\ fn.retry <=>
             /\ fn.attempt < config.max_retries
             /\ \/ fn.status_code = <<429>>
                \/ \E sc \in 500..599 : fn.status_code = <<sc>>
                \/ fn.exception \in TransportClasses
        /\ (fn.status_code \in {<<400>>, <<404>>} /\ fn.exception = None)
              => ~fn.retry
        /\ fn.attempt >= config.max_retries => ~fn.retry

\* a retry granted for a 5xx at the last attempt that may retry
C9_Witness ==
    /\ fn.op = "should_retry"
    /\ fn.retry
    /\ fn.status_code = <<503>>
    /\ fn.exception = None
    /\ fn.attempt + 1 = config.max_retries

\* C10: for every attempt in [0, max_retries) and every jitter draw,
\* calculate_delay(attempt) is at least 0 and at most max_retry_delay, also
\* when jitter is enabled.
C10_DelayWithinCap ==
    (fn.op = "calculate_delay" /\ fn.attempt < config.max_retries) =>
        /\ 0 <= fn.delay
        /\ fn.delay <= config.max_retry_delay

\* C11: get_eligibility called with an identifier that is not exactly 10
\* decimal digits returns at once with an outcome that has success = False
\* and the invalid-format message, without acquiring a token and without
\* invoking the request function; the token count and the limiter's
\* total_requests are unchanged by the call.
C11_MalformedIdentifierShortCircuits ==
    [][\A t \in Fetchers :
         (/\ ncalls'[t] = ncalls[t] + 1
          /\ ~(arg_npi'[t][1].len = 10 /\ arg_npi'[t][1].digits))
         => /\ pc'[t] = "done"
            /\ outcome'[t] /= <<>>
            /\ ~outcome'[t][1].success
            /\ outcome'[t][1].status_code = <<>>
            /\ outcome'[t][1].error_message =
                  "Invalid NPI format (must be 10 digits)"
            /\ wret'[t] = <<>>
            /\ responses'[t] = <<>>
            /\ granted'[t] = 0
            /\ tokens' = tokens
            /\ since_refill' = since_refill
            /\ total_requests' = total_requests
            /\ stats' = stats]_vars

\* a call with five digits has returned and the bucket is still full
C11_Witness ==
    \E t \in Fetchers :
        /\ pc[t] = "done"
        /\ arg_npi[t] = <<[len |-> 5, digits |-> TRUE]>>
        /\ outcome[t] /= <<>>
        /\ ~outcome[t][1].success
        /\ tokens = Capacity
        /\ total_requests = 0

\* the counters of stats that stand for one kind of outcome
OutcomeCounters(st) ==
    st.successful_requests + st.failed_requests + st.not_found_requests
    + st.bad_request_errors + st.rate_limit_errors + st.server_errors
    + st.connection_errors

\* C12: the client's counters are updated exactly once per terminal outcome
\* of get_eligibility, whatever the number of retries: after n completed
\* fetches total_requests is n and the per-outcome counters sum to n.
C12_CountersOncePerOutcome ==
    \A t \in Fetchers :
        pc[t] \in {"idle", "done"} =>
            /\ stats.total_requests = ncalls[t]
            /\ OutcomeCounters(stats) = ncalls[t]

\* C18: in parallel mode each partition worker has its own client and its
\* own token bucket: the bucket a worker draws from has given out only the
\* tokens of that worker, and holds what the worker's own grants and the
\* refill leave, whatever the workers of the other partitions do.
C18_BucketPerWorker ==
    \A t \in Fetchers :
        ncalls[t] <= 1 =>
            /\ total_requests = granted[t]
            /\ tokens + since_refill >=
                  Min(Capacity, Capacity - granted[t] * OneToken + since_refill)

\* C13: after process_year(year) has returned, the year's result map holds
\* exactly one outcome for every identifier of the loaded list and no other
\* key, also for identifiers whose step raised (in the fetch, the raw-file
\* save, the record processing, the progress callback or the checkpoint).
C13_OneOutcomePerIdentifier ==
    \A y \in YearIds :
        wstate[y] = "returned" => year_results[y] = Range(npis)

\* C14: a failure confined to one identifier never aborts its partition and
\* never reaches the caller of process_all_years: the step of an identifier
\* always leads to the next one, a process_year that returned has fetched
\* every identifier, process_year raises only before its loop, and
\* process_all_years raises only when a process_year did.
C14_IdentifierFailureIsContained ==
    /\ [](\A y \in YearIds :
            /\ wstate[y] = "returned" => fetched[y] = npis
            /\ wstate[y] = "raised" => fetched[y] = <<>>)
    /\ [](main \in {"unwinding", "raised"} =>
            \E y \in Range(years) : wstate[y] = "raised" /\ fetched[y] = <<>>)
    /\ [][\A y \in YearIds :
            wstate[y] = "fetching" =>
               \/ wstate'[y] = "fetching" /\ idx'[y] = idx[y]
               \/ wstate'[y] = "loop" /\ idx'[y] = idx[y] + 1]_vars

\* the fetch of the first identifier raised; the others were still fetched,
\* process_year returned and so did process_all_years
C14_Witness ==
    \E y \in Range(years) :
        /\ main = "returned"
        /\ wstate[y] = "returned"
        /\ Len(npis) = MaxNpis
        /\ fetched[y] = npis
        /\ 1 \notin year_results[y]
        /\ failed_count[y] = Len(npis)

\* C15: within one partition the identifiers are fetched one at a time and
\* in the order of the list: the identifiers fetched so far are the first
\* ones of the list, in order, all but the one in flight have had their whole
\* step (outcome recorded, progress callback called), in sequential and in
\* parallel mode.
C15_SequentialInOrder ==
    \A y \in YearIds :
        /\ Len(fetched[y]) <= Len(npis)
        /\ fetched[y] = SubSeq(npis, 1, Len(fetched[y]))
        /\ Len(fetched[y]) =
              idx[y] + (IF wstate[y] = "fetching" THEN 1 ELSE 0)
        /\ year_results[y] \subseteq Range(SubSeq(npis, 1, idx[y]))
        /\ ~progress_callback =>
              \A j \in 1..Len(delivered[y]) : delivered[y][j] <= idx[y]

\* in parallel mode two partitions each have their last identifier in flight
C15_Witness ==
    /\ main = "parallel"
    /\ Len(npis) = MaxNpis
    /\ \E y, z \in Range(years) :
          /\ y /= z
          /\ wstate[y] = "fetching" /\ wstate[z] = "fetching"
          /\ fetched[y] = npis /\ fetched[z] = npis

\* C16: on resume after a checkpoint that records k identifiers processed
\* out of n, the restarted partition re-requests none of the first k
\* identifiers and makes exactly n - k calls.
C16_ResumeSkipsProcessed ==
    resumed =>
        \A y \in Range(years) :
            /\ \A j \in 1..Len(fetched[y]) : fetched[y][j] > checkpoint_read[y]
            /\ wstate[y] = "returned" =>
                  Len(fetched[y]) = Len(npis) - checkpoint_read[y]

\* C17: process_all_years checks its preconditions before any worker starts:
\* with an empty identifier list or an empty list of years the run is
\* rejected with an error, no process_year is started and no fetch is made.
C17_PreconditionsRejected ==
    (npis = <<>> \/ years = <<>>) =>
        /\ main /= "returned"
        /\ \A y \in YearIds : wstate[y] = "none" /\ fetched[y] = <<>>

\* C19: in parallel mode the progress callback of each partition is its own:
\* the 'current' values any one progress sink receives are strictly
\* increasing, never mixed with the counter of another partition, whether
\* the caller passed a progress callback or not.
C19_ProgressIsolated ==
    (parallel /\ Len(years) > 1) =>
        \A s \in Sinks :
            \A j \in 1..(Len(delivered[s]) - 1) :
                delivered[s][j] < delivered[s][j + 1]

\* C20: in parallel mode, when a partition worker raises, the orchestrator
\* cancels no sibling: process_all_years surfaces the error only once every
\* process_year has ended, those that did not raise having gone through the
\* whole list.
C20_SiblingsRunToCompletion ==
    (main = "raised" /\ parallel /\ Len(years) > 1) =>
        \A y \in Range(years) :
            /\ Finished(y)
            /\ wstate[y] = "returned" => fetched[y] = npis

\* one process_year raised and the error was surfaced after a sibling had
\* fetched every identifier and returned
C20_Witness ==
    /\ main = "raised"
    /\ parallel /\ Len(years) > 1
    /\ Len(npis) = MaxNpis
    /\ \E y, z \in Range(years) :
          /\ wstate[y] = "raised"
          /\ wstate[z] = "returned"
          /\ fetched[z] = npis

\* the kinds of outcome a returned ProcessingMetadata belongs to
OutcomeClasses(m) ==
    {c \in {"success", "parse-failure", "not-found", "bad-request",
            "rate-limited", "server-error", "unexpected-status",
            "raised-error"} :
        \/ c = "success" /\ m.success
        \/ c = "parse-failure" /\ ~m.success /\ m.status_code = <<200>>
        \/ c = "not-found" /\ m.status_code = <<404>>
        \/ c = "bad-request" /\ m.status_code = <<400>>
        \/ c = "rate-limited" /\ m.status_code = <<429>>
        \/ c = "server-error" /\ m.status_code /= <<>>
              /\ Head(m.status_code) >= 500 /\ Head(m.status_code) < 600
        \/ c = "unexpected-status" /\ m.status_code /= <<>>
              /\ m.error_message = "Unexpected status code"
        \/ c = "raised-error" /\ m.status_code = <<>>}

\* C27: for a well-formed identifier the outcome of get_eligibility belongs
\* to exactly one of the eight kinds; it has success = True exactly when the
\* final result is a 200 whose body parses and validates, and a record is
\* returned exactly when success = True.
C27_OutcomeClassification ==
    \A t \in Fetchers :
        (pc[t] = "done" /\ arg_npi[t] /= <<>> /\ ValidNpi(arg_npi[t][1])) =>
            /\ outcome[t] /= <<>>
            /\ wret[t] /= <<>>
            /\ Cardinality(OutcomeClasses(outcome[t][1])) = 1
            /\ outcome[t][1].success <=>
                  (IsStatus(wret[t][1], 200) /\ wret[t][1].body_ok)
            /\ outcome[t][2] <=> outcome[t][1].success

\* a fetch of a well-formed identifier ended with a 200 whose body does not
\* parse: a parse-failure, no record
C27_Witness ==
    \E t \in Fetchers :
        /\ pc[t] = "done"
        /\ arg_npi[t] /= <<>> /\ ValidNpi(arg_npi[t][1])
        /\ wret[t] /= <<>>
        /\ IsStatus(wret[t][1], 200) /\ ~wret[t][1].body_ok
        /\ OutcomeClasses(outcome[t][1]) = {"parse-failure"}
        /\ ~outcome[t][2]

\* C28: an outcome with status_code 429 is returned only when the retries
\* are used up: the request function was invoked max_retries + 1 times for
\* that fetch, and each of its results was a 429 or a retried transport
\* error.
C28_RateLimitedOnlyAfterExhaustion ==
    \A t \in Fetchers :
        (/\ pc[t] = "done"
         /\ outcome[t] /= <<>>
         /\ outcome[t][1].status_code = <<429>>) =>
            /\ Len(responses[t]) = config.max_retries + 1
            /\ \A j \in 1..Len(responses[t]) :
                  \/ IsStatus(responses[t][j], 429)
                  \/ IsTransportError(responses[t][j])

\* a rate-limited outcome after the largest number of retries, one of which
\* followed a transport error
C28_Witness ==
    \E t \in Fetchers :
        /\ pc[t] = "done"
        /\ outcome[t] /= <<>>
        /\ outcome[t][1].status_code = <<429>>
        /\ config.max_retries = MaxRetriesBound
        /\ Len(responses[t]) = MaxRetriesBound + 1
        /\ \E j \in 1..Len(responses[t]) : IsTransportError(responses[t][j])

\* C29: the retry_count of a fetch outcome is the number of retries of that
\* fetch, the calls of the request function minus one.
C29_RetryCountRecorded ==
    \A t \in Fetchers :
        (pc[t] = "done" /\ outcome[t] /= <<>> /\ responses[t] /= <<>>) =>
            outcome[t][1].retry_count = Len(responses[t]) - 1

\* process_all_years has ended: it returned, or it raised
RunEnded == main \in {"returned", "raised"}

\* C21: a partition that fails with a partition-fatal error is recorded as
\* failed and the run goes on: when the run has ended it has returned, and
\* every partition that did not fail was processed and its result is
\* delivered.
C21_FailedPartitionIsContained ==
    RunEnded =>
        /\ main = "returned"
        /\ \A y \in Range(years) :
              wstate[y] /= "raised" => (wstate[y] = "returned" /\ y \in all_results)

\* C22: the run summary is written on every run that has ended, also after
\* a failed partition, and a run without a failed partition returns one
\* entry per configured partition.
C22_SummaryOnEveryRun ==
    RunEnded =>
        /\ summary_saved
        /\ (\A y \in Range(years) : wstate[y] /= "raised") =>
              (main = "returned" /\ all_results = Range(years))

\* process_year(y) is running
Running(y) == wstate[y] \in {"submitted", "loop", "fetching"}

\* C26: the partition workers run concurrently, all submitted before a
\* result is collected, exactly when parallel is True and more than one
\* partition is configured; otherwise they run one at a time in the
\* configured order, each started after the previous one returned.
C26_ParallelExactlyWhenAsked ==
    main /= "idle" =>
        IF parallel /\ Len(years) > 1
        THEN /\ main /= "sequential"
             /\ \A y \in Range(years) : wstate[y] /= "none"
        ELSE /\ main \notin {"parallel", "unwinding"}
             /\ Cardinality({y \in YearIds : Running(y)}) <= 1
             /\ \A j \in 1..Len(years) :
                   wstate[years[j]] /= "none" =>
                       \A k \in 1..(j - 1) : /\ wstate[years[k]] = "returned"
                                             /\ years[k] \in all_results

\* all the partitions are inside get_eligibility at once, in parallel mode
C26_Witness ==
    /\ main = "parallel"
    /\ Len(years) = MaxYears
    /\ Len(npis) = MaxNpis
    /\ \A y \in Range(years) : wstate[y] = "fetching" /\ idx[y] = MaxNpis - 1

AcceptedRows(skip) ==
    {j \in 1..Len(csv_rows) :
        /\ strip(csv_rows[j][1]) /= <<>>
        /\ skip \/ (/\ Len(strip(csv_rows[j][1])) = NpiDigits
                    /\ \A k \in 1..NpiDigits :
                          strip(csv_rows[j][1])[k] \in DigitChars)}

\* of those, the rows with the first occurrence of their value
FirstOccurrences(skip) ==
    {j \in AcceptedRows(skip) :
        \A k \in AcceptedRows(skip) :
            k < j => strip(csv_rows[k][1]) /= strip(csv_rows[j][1])}

\* C25: a call of read_npis that returns gives the accepted values of the
\* rows in the order of their first occurrence, none twice, none blank and,
\* unless skip_validation, each of exactly 10 digits; the call adds one to
\* duplicate_npis for every repeat of an accepted value.
C25_UniqueValidatedInOrder ==
    [][Len(read') > Len(read) =>
          LET call == read'[Len(read')]
              skip == call.skip_validation
              first == FirstOccurrences(skip)
          IN
          ~call.raised =>
              /\ Len(call.npis) = Cardinality(first)
              /\ \A j \in first :
                    call.npis[Cardinality({k \in first : k <= j})] =
                        strip(csv_rows[j][1])
              /\ \A i \in 1..Len(call.npis) : \A j \in 1..Len(call.npis) :
                    i /= j => call.npis[i] /= call.npis[j]
              /\ \A i \in 1..Len(call.npis) :
                    /\ call.npis[i] /= <<>>
                    /\ call.npis[i] = strip(call.npis[i])
                    /\ ~skip => /\ Len(call.npis[i]) = NpiDigits
                                /\ \A k \in 1..NpiDigits :
                                      call.npis[i][k] \in DigitChars
              /\ reader'.stats.duplicate_npis - reader.stats.duplicate_npis
                    = Cardinality(AcceptedRows(skip) \ first)
              /\ Len(reader'.duplicate_npis) - Len(reader.duplicate_npis)
                    = Cardinality(AcceptedRows(skip) \ first)
      ]_vars

\* a validating call returned one identifier from a file that has it twice,
\* once with spaces around it, and an ill-formed value
C25_Witness ==
    /\ Len(read) = 1
    /\ ~read[1].raised /\ ~read[1].skip_validation
    /\ Len(read[1].npis) = 1
    /\ reader.stats.duplicate_npis = 1
    /\ reader.stats.invalid_npis = 1
    /\ \E j \in 1..Len(csv_rows) :
          csv_rows[j] /= <<>> /\ csv_rows[j][1] /= strip(csv_rows[j][1])
             /\ strip(csv_rows[j][1]) = read[1].npis[1]

RECURSIVE SumOfCalls(_)
SumOfCalls(S) ==
    IF S = {} THEN 0
    ELSE LET t == CHOOSE x \in S : TRUE IN ncalls[t] + SumOfCalls(S \ {t})

\* C23: the counters of a client shared by several threads lose no update:
\* when no thread is inside a fetch, each counter is the number of its
\* events, here one response and one success per completed fetch.
C23_NoLostCounterUpdate ==
    (\A t \in Threads : pc[t] = "idle") =>
        /\ stats.total_requests = SumOfCalls(Threads)
        /\ stats.successful_requests = SumOfCalls(Threads)

\* C24: every change of the limiter's tokens and counters is made by the
\* thread that holds the limiter's lock, inside the locked block of acquire.
C24_MutationsUnderLock ==
    [][(\/ tokens' /= tokens
        \/ total_requests' /= total_requests
        \/ total_wait_time' /= total_wait_time
        \/ rate_limited_requests' /= rate_limited_requests) =>
          \E t \in Threads :
              /\ lock = {t}
              /\ pc[t] = "acq_locked"
              /\ pc'[t] /= pc[t]
      ]_vars

\* C37: every invocation of func by the wrapper, the first attempt and the
\* retries alike, follows a successful acquire of its own: func is invoked
\* only by the thread whose acquire just returned True, and the tokens one
\* wrapper call consumed are as many as its invocations of func.
C37_OneTokenPerInvocation ==
    /\ [](\A t \in Fetchers :
            granted[t] = Len(responses[t]) + (IF pc[t] = "acq_true" THEN 1 ELSE 0))
    /\ [][\A t \in Fetchers :
            /\ (responses'[t] /= responses[t] /\ responses'[t] /= <<>>) =>
                   /\ pc[t] = "acq_true"
                   /\ Len(responses'[t]) = Len(responses[t]) + 1
            /\ (pc[t] /= "acq_true" /\ pc'[t] = "acq_true") =>
                   /\ pc[t] = "acq_locked"
                   /\ lock = {t}
                   /\ total_requests' = total_requests + 1
                   /\ granted'[t] = granted[t] + 1]_vars

\* a call that ended after two retries, with three tokens taken for it
C37_Witness ==
    \E t \in Fetchers :
        /\ pc[t] = "done"
        /\ Len(responses[t]) = 3
        /\ granted[t] = 3
        /\ total_requests = 3

\* C39: the wrapper never falls out of its while loop: an iteration returns,
\* raises, or sleeps and continues with attempt + 1 <= max_retries, so the
\* statements after the loop (raise last_exception, or RuntimeError "Max
\* retries exceeded") are never reached, for every max_retries >= 0.
C39_LoopNeverExhausted ==
    /\ [](\A t \in Fetchers :
            /\ config.max_retries >= 0
            /\ pc[t] = "backoff" => attempt[t] + 1 <= config.max_retries
            /\ wret[t] /= <<Raised("RuntimeError")>>
            /\ (wret[t] /= <<>> /\ responses[t] /= <<>>) =>
                   wret[t] \in {<<Last(responses[t])>>, <<Raised("TimeoutError")>>})
    /\ [][\A t \in Fetchers :
            pc[t] = "backoff" => pc'[t] \in {"backoff", "acq_enter"}]_vars

\* with max_retries = 0 the only iteration ended the call, by raising the
\* transport error of func
C39_Witness ==
    \E t \in Fetchers :
        /\ pc[t] = "done"
        /\ config.max_retries = 0
        /\ attempt[t] = 0
        /\ Len(responses[t]) = 1
        /\ IsTransportError(responses[t][1])
        /\ wret[t] = <<responses[t][1]>>

\* C31: acquire(timeout = t) returns False only at a check where no whole
\* token was available after the refill and the time already waited plus the
\* wait for the next token (one token's time) exceeded t; with a whole token
\* available after the refill it returns True at once, without sleeping; a
\* call that returns False has consumed no token and has not incremented
\* total_requests.
C31_TimeoutSemantics ==
    /\ [](\A t \in Threads : pc[t] = "acq_false" => granted[t] = 0)
    /\ [][\A t \in Threads :
            /\ (pc[t] /= "acq_false" /\ pc'[t] = "acq_false") =>
                   /\ pc[t] = "acq_check"
                   /\ timeout[t] /= <<>>
                   /\ elapsed[t] + config.sec_per_token > Head(timeout[t])
                   /\ tokens' = tokens
                   /\ total_requests' = total_requests
                   /\ total_wait_time' = total_wait_time
            /\ (pc[t] /= "acq_check" /\ pc'[t] = "acq_check") =>
                   /\ pc[t] = "acq_locked"
                   /\ Min(config.burst_requests * config.sec_per_token,
                          tokens + since_refill) < config.sec_per_token
                   /\ total_requests' = total_requests
            /\ (/\ pc[t] = "acq_locked" /\ pc'[t] /= "acq_locked"
                /\ Min(config.burst_requests * config.sec_per_token,
                       tokens + since_refill) >= config.sec_per_token) =>
                   /\ pc'[t] = "acq_true"
                   /\ sleep_left'[t] = sleep_left[t]
                   /\ total_wait_time' = total_wait_time]_vars

\* a caller with a timeout found the bucket emptied by the other caller and
\* was refused; the wait for a token alone is within the timeout, so time had
\* passed since the call started
C31_Witness ==
    \E t \in Threads :
        /\ pc[t] = "acq_false"
        /\ timeout[t] /= <<>>
        /\ config.sec_per_token <= Head(timeout[t])
        /\ granted[t] = 0
        /\ total_requests >= 1
        /\ tokens < config.sec_per_token

\* C38: a thread that waits for a token does not hold the limiter's lock
\* while it sleeps: the lock is released before the timeout check and the
\* sleep (only a thread inside the locked block holds it), so while one
\* caller sleeps another caller can enter the locked block, unless a third
\* party is in it, and is granted a token refilled since.
C38_NoLockWhileSleeping ==
    /\ \A t \in Threads :
          /\ pc[t] \in {"acq_check", "acq_sleep", "acq_false", "acq_true"} => t \notin lock
          /\ t \in lock => pc[t] = "acq_locked"
    /\ \A t, u \in Threads :
          (pc[t] \in {"acq_check", "acq_sleep"} /\ pc[u] = "acq_enter") =>
             \/ ENABLED AcquireLock(u)
             \/ \E v \in Threads \ {t} : lock = {v} /\ ENABLED AcquireLocked(v)

\* the fetcher used the only token, missed on its retry and sleeps; the
\* bucket was read again after the sleep began (the sleep's remainder and
\* the time since the last refill add up to less than one token's time),
\* by the other caller, who was granted the refilled token
C38_Witness ==
    \E t \in Fetchers : \E u \in Others :
        /\ pc[t] = "acq_sleep"
        /\ sleep_left[t] > 0
        /\ sleep_left[t] + since_refill < config.sec_per_token
        /\ config.burst_requests = 1
        /\ granted[t] = 1
        /\ pc[u] = "acq_true"
        /\ total_requests = 2

\* retry_delay * backoff_factor ^ attempt, capped at max_retry_delay
CappedExponential(att) ==
    Min(config.retry_delay * (config.backoff_factor ^ att), config.max_retry_delay)

\* C34 as stated: with jitter disabled calculate_delay(attempt) equals
\* min(retry_delay * backoff_factor^attempt, max_retry_delay); for
\* backoff_factor > 1 it is non-decreasing in attempt, and once it has reached
\* the cap every later attempt returns exactly max_retry_delay.
C34_DelayIsCappedExponential ==
    (fn.op = "calculate_delay" /\ ~config.jitter) =>
        /\ fn.delay = CappedExponential(fn.attempt)
        /\ config.backoff_factor > 1 =>
              \A a \in AttemptInputs : a < fn.attempt =>
                 /\ calculate_delay(a, fn.u) <= fn.delay
                 /\ calculate_delay(a, fn.u) = config.max_retry_delay =>
                        fn.delay = config.max_retry_delay

\* C34, amended: with jitter disabled calculate_delay(attempt) equals
\* max(0, min(retry_delay * backoff_factor^attempt, max_retry_delay)); for
\* backoff_factor > 1 it is non-decreasing in attempt, and once it has reached
\* the cap every later attempt returns exactly max_retry_delay.
C34_DelayIsCappedExponentialOrZero ==
    (fn.op = "calculate_delay" /\ ~config.jitter) =>
        /\ fn.delay = Max(0, CappedExponential(fn.attempt))
        /\ config.backoff_factor > 1 =>
              \A a \in AttemptInputs : a < fn.attempt =>
                 /\ calculate_delay(a, fn.u) <= fn.delay
                 /\ calculate_delay(a, fn.u) = config.max_retry_delay =>
                        fn.delay = config.max_retry_delay

\* without jitter and with a factor above 1 the delay grew from below the
\* cap to the cap and the evaluated, later attempt stays at the cap
C34_Witness ==
    /\ fn.op = "calculate_delay"
    /\ ~config.jitter
    /\ config.backoff_factor > 1
    /\ fn.attempt >= 2
    /\ calculate_delay(0, 0) < config.max_retry_delay
    /\ calculate_delay(fn.attempt - 1, 0) = config.max_retry_delay
    /\ fn.delay = config.max_retry_delay

\* C35: when process_year returns, successful_count + failed_count is the
\* number of identifiers in the list: each identifier is counted in exactly
\* one of the two counters, also when the progress callback or the
\* checkpoint save raises for an identifier already counted as successful,
\* for any checkpoint_interval.
C35_EachIdentifierCountedOnce ==
    \A y \in YearIds :
        wstate[y] = "returned" =>
            successful_count[y] + failed_count[y] = Len(npis)

\* inside a call of acquire, get_eligibility or get_stats
Unfinished(t) == pc[t] \notin {"idle", "done"}

\* C33: no thread holds more than one lock, and there is no deadlock.  The
\* limiter's lock is the only one: its holder is inside the locked block of
\* acquire or of get_stats, where it waits for no lock and can leave the
\* block; and whenever some thread is not finished, one of these can take a
\* step (a sleeping one when its sleep has passed).
C33_NoNestedLockNoDeadlock ==
    /\ Cardinality(lock) <= 1
    /\ \A t \in Threads :
          /\ t \in lock <=> pc[t] \in {"acq_locked", "stats_locked"}
          /\ t \in lock => ENABLED (AcquireLocked(t) \/ GetStatsRead(t))
          /\ pc[t] \in {"acq_enter", "stats_enter"} =>
                \/ ENABLED (AcquireLock(t) \/ GetStatsLock(t))
                \/ \E u \in Threads \ {t} : lock = {u}
    /\ (\E t \in Threads : Unfinished(t)) =>
          \E t \in Threads :
              /\ Unfinished(t)
              /\ ENABLED WorkerStep(t) \/ sleep_left[t] > 0

\* the fetching worker waits at the head of acquire for the lock, which a
\* caller of get_stats holds
C33_Witness ==
    \E t \in Fetchers : \E u \in Others :
        /\ pc[t] = "acq_enter"
        /\ pc[u] = "stats_locked"
        /\ lock = {u}
        /\ ~ENABLED AcquireLock(t)
        /\ granted[t] >= 1

\* the events of a history, taken over every interval between two of them,
\* are at most burst_requests + requests_per_second * (the interval's length)
RateBounded(ages) ==
    \A i, j \in 1..Len(ages) :
        i <= j =>
          (j - i + 1 - config.burst_requests) * config.sec_per_token
             <= ages[i] - ages[j]

\* C36 as stated: the workers share one client and one RateLimiter, so the
\* network calls started by all workers together in any interval of length T
\* are at most burst_requests + requests_per_second * T, for every
\* interleaving.
C36_CallRateBounded == RateBounded(observed.calls)

\* C36, amended: the tokens granted to all workers together (the acquire
\* calls that return True, one before every network call) in any interval
\* of length T are at most burst_requests + requests_per_second * T, for
\* every interleaving.
C36_GrantRateBounded == RateBounded(observed.grants)

\* both workers were granted tokens, three in all, from a bucket of one
\* token: two of the grants had to wait for the refill
C36_Witness ==
    /\ config.burst_requests = 1
    /\ Len(observed.grants) = 3
    /\ \A t \in Threads : granted[t] >= 1
    /\ observed.grants[1] - observed.grants[3] >= 2 * config.sec_per_token

\* C32: a caller of acquire without timeout is not starved under constant
\* contention: with several threads calling acquire on one bucket again and
\* again, the clock advancing and the scheduler fair, every call of acquire
\* eventually returns True.
C32_NoStarvation ==
    \A t \in Threads :
        (pc[t] \in AcquirePcs /\ timeout[t] = <<>>) ~> (pc[t] = "acq_true")

====
